---- MODULE Spec2Model ----
(***************************************************************************)
(* github-mcp: the JSON-RPC/stdio dispatch loop (src/src/server.rs), the   *)
(* retrying HTTP executors (src/src/http/mod.rs) and the response envelope *)
(* (src/src/mcp.rs), as a state machine.                                   *)
(*                                                                         *)
(* One step of the model is the code that runs between two blocking        *)
(* points: reading a line, one HTTP attempt, one backoff sleep.            *)
(*                                                                         *)
(* Outside the model: I/O errors of stdin and stdout (the `?` of read_line *)
(* and of write_json_line_response) and a failure of http::build_client,   *)
(* which depend on the process environment and not on the input lines or   *)
(* on the upstream's answers.                                              *)
(***************************************************************************)
EXTENDS Integers, Sequences, FiniteSets, TLC

VARIABLES
    env,      \* the process environment: credential present, GITHUB_MCP_ENABLE_PING
    pc,       \* position of run_stdio_server's loop
    line,     \* the line of the current loop iteration (`raw`)
    cur,      \* the call-site the tool handler is blocked in
    reqs,     \* history: the id member of every request read that has one, in order
    lines,    \* history: number of lines read from stdin
    out,      \* stdout: the id of every response line written, in order
    resp,     \* the Response of the current loop iteration
    ex,       \* the executor call in progress (locals of rest_get_json etc.)
    upstream, \* history: an HTTP request was sent while serving `line`
    fin,      \* the arguments of a function called on its own
    fout,     \* the value that call returned
    INCLUDE_RATE  \* mcp.rs: the thread-local flag read by mcp_wrap

vars == <<env, pc, line, cur, reqs, lines, out, resp, ex, upstream, fin, fout, INCLUDE_RATE>>

(***************************************************************************)
(* Bounds of the model.                                                    *)
(***************************************************************************)
MaxLines == 2

\* The largest attempt number compute_backoff is applied to on its own.
MaxAttemptArg == 8

(***************************************************************************)
(* HTTP statuses the upstream is drawn from, and reqwest's classification. *)
(***************************************************************************)
Statuses == {200, 202, 302, 400, 401, 403, 404, 409, 422, 429, 500, 503}

is_success(status) == status >= 200 /\ status <= 299

is_server_error(status) == status >= 500 /\ status <= 599

TOO_MANY_REQUESTS == 429

MaxRetries == 5

\* A classification that knows 500 as the only server error.
map_status_to_error_only500(status) ==
    CASE status = 400 -> [code |-> "bad_request", retriable |-> FALSE]
      [] status = 401 -> [code |-> "unauthorized", retriable |-> FALSE]
      [] status = 403 -> [code |-> "forbidden", retriable |-> FALSE]
      [] status = 404 -> [code |-> "not_found", retriable |-> FALSE]
      [] status = 409 -> [code |-> "conflict", retriable |-> FALSE]
      [] status = 429 -> [code |-> "rate_limited", retriable |-> TRUE]
      [] status = 500 -> [code |-> "upstream_error", retriable |-> TRUE]
      [] OTHER -> [code |-> "server_error", retriable |-> FALSE]

\* The error a status maps to: {code, retriable} (the message is the body text).
map_status_to_error(status) ==
    CASE status = 400 -> [code |-> "bad_request", retriable |-> FALSE]
      [] status = 401 -> [code |-> "unauthorized", retriable |-> FALSE]
      [] status = 403 -> [code |-> "forbidden", retriable |-> FALSE]
      [] status = 404 -> [code |-> "not_found", retriable |-> FALSE]
      [] status = 409 -> [code |-> "conflict", retriable |-> FALSE]
      [] status = TOO_MANY_REQUESTS -> [code |-> "rate_limited", retriable |-> TRUE]
      [] is_server_error(status) -> [code |-> "upstream_error", retriable |-> TRUE]
      [] OTHER -> [code |-> "server_error", retriable |-> FALSE]

NoError == [code |-> "", retriable |-> FALSE]

(***************************************************************************)
(* compute_backoff, in milliseconds.  retry_after is -1 for None, else the *)
(* header's seconds; jitter is the value fastrand draws from 0..=max/2.    *)
(***************************************************************************)
RECURSIVE Shl1(_)
Shl1(n) == IF n = 0 THEN 1 ELSE 2 * Shl1(n - 1)

Min(a, b) == IF a < b THEN a ELSE b

\* The base delay taken without the 5 s ceiling.
BackoffMaxUncapped(attempt) == 200 * Shl1(Min(attempt, 5))

\* `max`: the base delay 200 ms << min(attempt, 5), at most 5 s.
BackoffMax(attempt) == Min(5000, 200 * Shl1(Min(attempt, 5)))

Jitters(attempt) == {0, BackoffMax(attempt) \div 2}

compute_backoff(attempt, retry_after, jitter) ==
    IF retry_after # -1 THEN retry_after * 1000
    ELSE BackoffMax(attempt) \div 2 + jitter

(***************************************************************************)
(* The seven executors of http/mod.rs and what they differ in.             *)
(***************************************************************************)
RestKinds == {"rest_get_json", "rest_get_json_with_accept", "rest_put_json",
              "rest_patch_json", "rest_post_json", "rest_get_text_with_accept"}

ExecKinds == RestKinds \cup {"graphql_post"}

\* Executors that read the Retry-After header into compute_backoff.
ReadsRetryAfter(kind) ==
    kind \in {"rest_get_json", "rest_get_json_with_accept", "rest_get_text_with_accept"}

\* Executors that call extract_rate_from_rest on every response.
ReadsRateHeaders(kind) == kind \in RestKinds

\* Executors that decode the success body as JSON of the expected shape.
DecodesBody(kind) == kind # "rest_get_text_with_accept"

\* A retry branch taken for every non-success status.
RetriesStatusAny(status) == ~is_success(status)

\* Whether the status gets the `attempt < 5` retry branch.
RetriesStatus(status) == status = TOO_MANY_REQUESTS \/ is_server_error(status)

(***************************************************************************)
(* What one attempt can meet.  t = "err": reqwest's send() failed.         *)
(* retry_after: -1 = no parsable Retry-After header, else its seconds.     *)
(* reset: the x-ratelimit-reset header: absent, an epoch chrono can        *)
(* represent, or an i64 outside chrono's range.                            *)
(* body: "ok" decodes; "bad" does not decode into the expected type;       *)
(* for GraphQL also "errors" (a populated errors array), "errors_empty"    *)
(* (errors: []) and "nodata" (data null or the queried object null).       *)
(***************************************************************************)
TransportError ==
    [t |-> "err", status |-> 0, retry_after |-> -1, reset |-> "none", body |-> "ok",
     rate_limit |-> FALSE]

Bodies(kind) ==
    IF kind = "graphql_post" THEN {"ok", "bad", "errors", "errors_empty", "nodata"}
    ELSE IF DecodesBody(kind) THEN {"ok", "bad"}
    ELSE {"ok"}

Resets(kind) == IF kind = "graphql_post" THEN {"none"} ELSE {"none", "ok", "bad"}

\* rate_limit: the GraphQL body holds data.rateLimit (beside the data asked
\* for, or beside errors).
RateLimits(kind, body) ==
    IF kind = "graphql_post" /\ body \in {"ok", "errors"} THEN BOOLEAN ELSE {FALSE}

\* Fields no branch of the executor reads for that status are left at their default.
Outcomes(kind) ==
    {TransportError}
    \cup {o \in [t : {"resp"}, status : {s \in Statuses : is_success(s)}, retry_after : {-1},
                  reset : Resets(kind), body : Bodies(kind), rate_limit : BOOLEAN] :
             o.rate_limit \in RateLimits(kind, o.body)}
    \cup [t : {"resp"}, status : {s \in Statuses : s = 429 \/ is_server_error(s)},
          retry_after : {-1, 0, 2}, reset : Resets(kind), body : {"ok"}, rate_limit : {FALSE}]
    \cup [t : {"resp"}, status : {s \in Statuses : ~is_success(s) /\ s # 429 /\ ~is_server_error(s)},
          retry_after : {-1}, reset : Resets(kind), body : {"ok"}, rate_limit : {FALSE}]

\* The response carried rate information: the x-ratelimit-* headers of a
\* REST response, the rateLimit field of a GraphQL one.
CarriesRate(o) == o.t = "resp" /\ (o.reset = "ok" \/ o.rate_limit)

\* extract_rate_from_rest: unwrap() of from_timestamp panics on an epoch out of range.
extract_rate_from_rest_panics(o) == o.reset = "bad"

(***************************************************************************)
(* The executor's locals.  phase: "idle" no call; "send" at the top of the *)
(* loop; "sleep" inside tokio::time::sleep; "ret" returned; "panic".       *)
(* status, body, retry_after: what the last attempt received (0, "none",   *)
(* -1: no response, no header).  carried: the response the call returned   *)
(* on carried rate information.                                            *)
(***************************************************************************)
NoRet == [ok |-> FALSE, data |-> "none", err |-> NoError, rate |-> FALSE, status |-> 0]

ExIdle ==
    [kind |-> "none", phase |-> "idle", attempt |-> 0, sends |-> 0, all503 |-> TRUE,
     status |-> 0, body |-> "none", retry_after |-> -1, wait |-> 0, ret |-> NoRet,
     carried |-> FALSE]

ExStart(kind) == [ExIdle EXCEPT !.kind = kind, !.phase = "send"]

ErrRet(code, retriable, rate, status) ==
    [ok |-> FALSE, data |-> "none", err |-> [code |-> code, retriable |-> retriable],
     rate |-> rate, status |-> status]

\* A success status taken as success whatever the body holds.
SuccessRetIgnoringBody(kind, o) ==
    [ok |-> TRUE, data |-> "full", err |-> NoError, rate |-> TRUE, status |-> o.status]

\* GraphQL errors delivered beside the data instead of ending the call in error.
SuccessRetErrorsBesideData(kind, o) ==
    IF kind = "graphql_post" /\ o.body = "bad" THEN ErrRet("server_error", FALSE, FALSE, o.status)
    ELSE IF kind # "graphql_post" /\ o.body = "bad" THEN ErrRet("server_error", FALSE, TRUE, o.status)
    ELSE [ok |-> TRUE, data |-> "full", err |-> NoError, rate |-> TRUE, status |-> o.status]

\* The value returned on a success status.
SuccessRet(kind, o) ==
    IF kind = "graphql_post" THEN
        CASE o.body = "bad" -> ErrRet("server_error", FALSE, FALSE, o.status)
          [] o.body \in {"errors", "errors_empty"} -> ErrRet("upstream_error", TRUE, FALSE, o.status)
          [] o.body = "nodata" ->
                [ok |-> TRUE, data |-> "null", err |-> NoError, rate |-> FALSE, status |-> o.status]
          [] OTHER ->
                [ok |-> TRUE, data |-> "full", err |-> NoError, rate |-> o.rate_limit,
                 status |-> o.status]
    ELSE IF DecodesBody(kind) /\ o.body = "bad" THEN ErrRet("server_error", FALSE, TRUE, o.status)
    ELSE [ok |-> TRUE, data |-> "full", err |-> NoError, rate |-> TRUE, status |-> o.status]

\* An exhausted transport failure reported as a final timeout.
ExhaustedErrorFinal == [code |-> "timeout", retriable |-> FALSE]

\* The error returned when the last attempt allowed failed in transport.
ExhaustedError == [code |-> "upstream_error", retriable |-> TRUE]

\* A retry budget test that admits one retry more.
MayRetryInclusive(attempt) == attempt <= MaxRetries

\* The retry budget test of every executor: `attempt < 5`.
MayRetry(attempt) == attempt < MaxRetries

\* One iteration of the executor's loop up to its sleep, return or panic.
ExecStep(e, o, jitter) ==
    LET sent == [e EXCEPT !.sends = e.sends + 1,
                          !.status = o.status,
                          !.body = IF o.t = "err" THEN "none" ELSE o.body,
                          !.retry_after = o.retry_after,
                          !.all503 = e.all503 /\ o.t = "resp" /\ o.status = 503]
        step ==
            IF o.t = "err" THEN
                IF MayRetry(e.attempt)
                THEN [sent EXCEPT !.phase = "sleep", !.wait = compute_backoff(e.attempt, -1, jitter)]
                ELSE [sent EXCEPT !.phase = "ret", !.ret = ErrRet(ExhaustedError.code, ExhaustedError.retriable, FALSE, 500)]
            ELSE IF ReadsRateHeaders(e.kind) /\ extract_rate_from_rest_panics(o)
                THEN [sent EXCEPT !.phase = "panic"]
            ELSE IF is_success(o.status)
                THEN [sent EXCEPT !.phase = "ret", !.ret = SuccessRet(e.kind, o)]
            ELSE IF RetriesStatus(o.status) /\ MayRetry(e.attempt)
                THEN [sent EXCEPT !.phase = "sleep",
                                  !.wait = compute_backoff(e.attempt,
                                               IF ReadsRetryAfter(e.kind) THEN o.retry_after ELSE -1,
                                               jitter)]
            ELSE LET m == map_status_to_error(o.status)
                 IN  [sent EXCEPT !.phase = "ret",
                                  !.ret = ErrRet(m.code, m.retriable, ReadsRateHeaders(e.kind), o.status)]
    IN  IF step.phase = "ret" THEN [step EXCEPT !.carried = CarriesRate(o)] ELSE step

\* The sleep is over: `attempt += 1; continue`.
ExecWake(e) ==
    [e EXCEPT !.phase = "send", !.attempt = e.attempt + 1, !.status = 0, !.body = "none",
              !.retry_after = -1, !.wait = 0]

ExAttempt ==
    /\ ex.phase = "send"
    /\ \E o \in Outcomes(ex.kind) : \E j \in Jitters(ex.attempt) :
           ex' = ExecStep(ex, o, j)
    /\ upstream' = TRUE
    /\ UNCHANGED <<env, pc, line, cur, reqs, lines, out, resp, fin, fout, INCLUDE_RATE>>

ExWake ==
    /\ ex.phase = "sleep"
    /\ ex' = ExecWake(ex)
    /\ UNCHANGED <<env, pc, line, cur, reqs, lines, out, resp, upstream, fin, fout, INCLUDE_RATE>>

(***************************************************************************)
(* JSON-RPC types of server.rs.  An id member on the wire is absent, null, *)
(* a number or a string; Request.id is Option<Id>, and serde reads both an *)
(* absent member and null into None.                                       *)
(***************************************************************************)
IdMembers == {"absent", "null", "n1", "sa"}

NoneId == "None"

ParseId(member) == IF member \in {"absent", "null"} THEN NoneId ELSE member

\* Response.id as serialized: None is written as null.
WireId(id) == IF id = NoneId THEN "null" ELSE id

(***************************************************************************)
(* The `meta` member of a tool's structured output as JSON: absent, not an *)
(* object, or an object whose members has_more, next_cursor, rate and any  *)
(* other member are each absent or hold a value.                           *)
(***************************************************************************)
AbsentMeta ==
    [kind |-> "absent", has_more |-> "absent", next_cursor |-> "absent", rate |-> "absent",
     other |-> "absent"]

ScalarMeta == [AbsentMeta EXCEPT !.kind = "scalar"]

MetaObjects ==
    [kind : {"object"}, has_more : {"absent", "null", "false", "true"},
     next_cursor : {"absent", "null", "str"}, rate : {"absent", "null", "obj"},
     other : {"absent", "x"}]

\* tools.rs Meta {next_cursor: None, has_more: false, rate: None}.
NoMeta == [next_cursor |-> FALSE, has_more |-> FALSE, rate |-> FALSE]

\* serde_json::to_value of a Meta: every field is written, None as null.
SerializeMeta(meta) ==
    [kind |-> "object",
     has_more |-> IF meta.has_more THEN "true" ELSE "false",
     next_cursor |-> IF meta.next_cursor THEN "str" ELSE "null",
     rate |-> IF meta.rate THEN "obj" ELSE "null",
     other |-> "absent"]

meta_is_empty(m) ==
    m.has_more = "absent" /\ m.next_cursor = "absent" /\ m.rate = "absent" /\ m.other = "absent"

\* A pruning that leaves an emptied meta object in place.
prune_meta_keeps_empty(structured, include_rate) ==
    IF ~structured.object \/ structured.meta.kind # "object" THEN structured
    ELSE LET m == structured.meta
             has_more == m.has_more = "true"
             m1 == IF ~has_more THEN [m EXCEPT !.has_more = "absent", !.next_cursor = "absent"]
                   ELSE m
             m2 == IF ~include_rate THEN [m1 EXCEPT !.rate = "absent"] ELSE m1
         IN  [structured EXCEPT !.meta = m2]

\* prune_meta: has_more is `.as_bool().unwrap_or(false)`.
prune_meta(structured, include_rate) ==
    IF ~structured.object \/ structured.meta.kind # "object" THEN structured
    ELSE LET m == structured.meta
             has_more == m.has_more = "true"
             m1 == IF ~has_more THEN [m EXCEPT !.has_more = "absent", !.next_cursor = "absent"]
                   ELSE m
             m2 == IF ~include_rate THEN [m1 EXCEPT !.rate = "absent"] ELSE m1
         IN  IF meta_is_empty(m2) THEN [structured EXCEPT !.meta = AbsentMeta]
             ELSE [structured EXCEPT !.meta = m2]

\* A guard whose drop leaves the flag as the call set it.
IncludeRateGuardLeak(saved, flag) == flag

\* Drop for IncludeRateGuard: the flag takes the value saved by set().
IncludeRateGuardDrop(saved, flag) == saved

NoResult ==
    [some |-> FALSE, what |-> "none", isError |-> FALSE, err |-> NoError, ping |-> FALSE,
     meta |-> AbsentMeta, message |-> ""]

NoRpcError == [some |-> FALSE, code |-> 0]

NoResp == [written |-> FALSE, id |-> NoneId, result |-> NoResult, error |-> NoRpcError]

\* An error response that also carries a result.
rpc_error_with_result(id, code) ==
    [written |-> TRUE, id |-> id, result |-> [NoResult EXCEPT !.some = TRUE],
     error |-> [some |-> TRUE, code |-> code]]

rpc_error(id, code) ==
    [written |-> TRUE, id |-> id, result |-> NoResult, error |-> [some |-> TRUE, code |-> code]]

rpc_ok(id, result) ==
    [written |-> TRUE, id |-> id, result |-> result, error |-> NoRpcError]

(***************************************************************************)
(* mcp_wrap: the envelope around a tool's structured output, pruned with   *)
(* include_rate = current_include_rate(); isError is inserted only when    *)
(* is_error.                                                               *)
(***************************************************************************)
mcp_wrap(structured, is_error, include_rate) ==
    LET pruned == prune_meta(structured, include_rate)
    IN  [some |-> TRUE, what |-> "envelope", isError |-> is_error, err |-> pruned.error,
         ping |-> FALSE, meta |-> pruned.meta, message |-> ""]

\* A handler's tail: out = {.., meta, error}; is_error = out.error.is_some().
ToolResponse(id, err, meta, include_rate) ==
    rpc_ok(id, mcp_wrap([object |-> TRUE, meta |-> SerializeMeta(meta), error |-> err],
                        err # NoError, include_rate))

(***************************************************************************)
(* The tools handle_tools_call matches on, by the shape of their call-site.*)
(***************************************************************************)
GraphqlQueryTools ==
    {"list_issues", "get_issue", "list_issue_comments_plain", "list_pull_requests",
     "get_pull_request", "get_pr_status_summary", "list_pr_comments_plain",
     "list_pr_review_threads_light", "list_pr_reviews_light", "list_pr_reviews",
     "list_pr_commits_light", "list_pr_commits"}

GraphqlMutationTools == {"resolve_pr_review_thread", "unresolve_pr_review_thread"}

RestGetTools ==
    {"list_pr_review_comments_plain", "list_pr_review_comments", "list_pr_files_light",
     "list_pr_files", "list_workflows_light", "list_workflow_runs_light",
     "get_workflow_run_light", "list_workflow_jobs_light", "list_repo_secrets_light",
     "list_repo_variables_light", "list_environments_light",
     "list_environment_variables_light", "list_commits", "get_commit", "list_tags",
     "list_branches", "list_releases", "get_release", "list_starred_repositories",
     "search_issues", "search_pull_requests", "search_repositories"}

DirectPostTools == {"rerun_workflow_run", "rerun_workflow_run_failed", "cancel_workflow_run"}

ToolNames ==
    {"ping", "get_workflow_job_logs", "pr_summary", "get_tag", "get_pr_diff", "get_pr_patch",
     "merge_pr", "update_issue", "update_pull_request", "fork_repository"}
    \cup GraphqlQueryTools \cup GraphqlMutationTools \cup RestGetTools \cup DirectPostTools

\* tools.rs: the names of the descriptors tool_descriptors returns.
tool_descriptors ==
    {"ping", "list_issues", "get_issue", "list_issue_comments_plain", "list_pull_requests",
     "get_pull_request", "list_pr_comments_plain", "list_pr_review_comments_plain",
     "list_pr_review_comments", "list_pr_review_threads_light", "resolve_pr_review_thread",
     "unresolve_pr_review_thread", "list_pr_reviews_light", "list_pr_reviews",
     "list_pr_commits_light", "list_pr_commits", "list_pr_files_light", "list_pr_files",
     "get_pr_diff", "get_pr_patch", "pr_summary", "list_repo_secrets_light",
     "list_repo_variables_light", "list_environments_light",
     "list_environment_variables_light", "list_commits", "get_commit", "list_tags", "get_tag",
     "list_branches", "list_releases", "get_release", "list_starred_repositories", "merge_pr",
     "search_issues", "search_pull_requests", "search_repositories", "update_issue",
     "update_pull_request", "fork_repository"}

\* Handlers that call enforce_limit before loading the configuration.
LimitTools ==
    {"list_issues", "list_issue_comments_plain", "list_pull_requests", "list_pr_comments_plain",
     "list_pr_review_comments_plain", "list_pr_review_comments", "list_pr_review_threads_light",
     "list_pr_reviews_light", "list_pr_reviews", "list_pr_commits_light", "list_pr_commits",
     "list_commits", "list_tags", "list_branches", "list_releases",
     "list_starred_repositories", "search_issues", "search_pull_requests",
     "search_repositories"}

\* The first upstream call a handler makes: an executor of http/mod.rs, or a
\* request the handler sends itself ("direct_post", "logs_get").
FirstCall(tool, args) ==
    CASE tool \in GraphqlQueryTools \cup GraphqlMutationTools -> "graphql_post"
      [] tool = "list_starred_repositories" ->
            IF args.inc = "starred_at" THEN "rest_get_json_with_accept" ELSE "rest_get_json"
      [] tool \in RestGetTools \cup {"pr_summary", "get_tag"} -> "rest_get_json"
      [] tool \in {"get_pr_diff", "get_pr_patch"} -> "rest_get_text_with_accept"
      [] tool = "merge_pr" -> "rest_put_json"
      [] tool \in {"update_issue", "update_pull_request"} -> "rest_patch_json"
      [] tool = "fork_repository" -> "rest_post_json"
      [] tool \in DirectPostTools -> "direct_post"
      [] tool = "get_workflow_job_logs" -> "logs_get"
      [] OTHER -> "none"

\* A limit check that accepts every value.
enforce_limit_unchecked(limit) == [ok |-> TRUE, l |-> IF limit = -1 THEN 30 ELSE limit]

\* enforce_limit: limit is -1 for None.
enforce_limit(limit) ==
    LET l == IF limit = -1 THEN 30 ELSE limit
    IN  IF l = 0 \/ l > 100 THEN [ok |-> FALSE, l |-> 0] ELSE [ok |-> TRUE, l |-> l]

\* GITHUB_MCP_ENABLE_PING: unset, or set to a value (its bytes).
PingUnset == [set |-> FALSE, value |-> <<>>]

PingSet(bytes) == [set |-> TRUE, value |-> bytes]

\* char::is_whitespace, for ASCII: space, \t, \n, \x0b, \x0c, \r.
IsWhitespace(ch) == ch \in {32, 9, 10, 11, 12, 13}

RECURSIVE TrimStart(_)
TrimStart(b) == IF b # <<>> /\ IsWhitespace(Head(b)) THEN TrimStart(Tail(b)) ELSE b

RECURSIVE TrimEnd(_)
TrimEnd(b) ==
    IF b # <<>> /\ IsWhitespace(b[Len(b)]) THEN TrimEnd(SubSeq(b, 1, Len(b) - 1)) ELSE b

\* A trim that removes nothing.
TrimNothing(b) == b

\* str::trim
Trim(b) == TrimEnd(TrimStart(b))

\* str::to_ascii_lowercase
ToAsciiLowercase(b) == [i \in 1..Len(b) |-> IF b[i] >= 65 /\ b[i] <= 90 THEN b[i] + 32 ELSE b[i]]

\* "1" | "true" | "yes" | "on"
TruthyWords == {<<49>>, <<116, 114, 117, 101>>, <<121, 101, 115>>, <<111, 110>>}

\* is_ping_enabled: GITHUB_MCP_ENABLE_PING, trimmed and lowercased, is one
\* of 1/true/yes/on; false when unset.
is_ping_enabled == env.ping.set /\ ToAsciiLowercase(Trim(env.ping.value)) \in TruthyWords

\* Config::from_env succeeds iff GITHUB_TOKEN or GH_TOKEN is set.
config_from_env_ok == env.token

(***************************************************************************)
(* Input lines.  k: "empty" (nothing left after trimming the line end),    *)
(* "garbage" (does not parse as a Request), "req" (parses).  For a request:*)
(* the id member, the method, whether params decode as ToolCallParams, the *)
(* tool name, and what the tool's own decode sees in the arguments.        *)
(***************************************************************************)
Methods == {"initialize", "tools/list", "tools/call", "initialized", "ping", "foo"}

\* One tool of every call-site shape, and a name handle_tools_call does not match.
SampleTools ==
    {"ping", "list_issues", "list_workflows_light", "rerun_workflow_run",
     "get_workflow_job_logs", "pr_summary", "get_tag"}

UnknownTool == "nope"

\* limit: -1 stands for an absent limit.
Limits == {-1, 0, 100, 101}

\* pr_summary's include_* flags: which optional sections are requested.
Includes == {"none", "reviews", "checks", "all"}

\* include_rate: the arguments hold `_include_rate: true`.
\* PingInput.message: Option<String>.
NoMessage == [some |-> FALSE, text |-> ""]

DefaultArgs ==
    [decodes |-> TRUE, limit |-> -1, inc |-> "none", include_rate |-> FALSE, message |-> NoMessage]

\* The tools sampled with `_include_rate: true` as well.
RateSampleTools == {"ping", "list_issues", "list_workflows_light", UnknownTool}

ArgsOf(name) ==
    {[DefaultArgs EXCEPT !.decodes = FALSE]}
    \cup (IF name \in LimitTools THEN {[DefaultArgs EXCEPT !.limit = l] : l \in Limits}
          ELSE IF name = "pr_summary" THEN {[DefaultArgs EXCEPT !.inc = i] : i \in Includes}
          ELSE {DefaultArgs})
    \cup (IF name \in RateSampleTools
          THEN {[DefaultArgs EXCEPT !.decodes = d, !.include_rate = TRUE] : d \in BOOLEAN}
          ELSE {})

BlankLine(k) ==
    [k |-> k, id |-> "absent", method |-> "", params |-> "none", name |-> "", args |-> DefaultArgs]

NoLine == BlankLine("none")

EmptyLine == BlankLine("empty")

GarbageLine == BlankLine("garbage")

RequestLines ==
    {[BlankLine("req") EXCEPT !.id = i, !.method = m] :
        i \in IdMembers, m \in Methods \ {"tools/call"}}
    \cup {[BlankLine("req") EXCEPT !.id = i, !.method = "tools/call", !.params = "bad"] :
        i \in IdMembers}
    \cup UNION {{[BlankLine("req") EXCEPT !.id = i, !.method = "tools/call", !.params = "ok",
                                         !.name = n, !.args = a] : a \in ArgsOf(n)} :
                   i \in IdMembers, n \in SampleTools \cup {UnknownTool}}

InputLines == {EmptyLine, GarbageLine} \cup RequestLines

(***************************************************************************)
(* What the loop does with a line before it first blocks: skip it, write a *)
(* response, or enter a handler's HTTP part.                               *)
(***************************************************************************)
Skip == [act |-> "skip", resp |-> NoResp, kind |-> "none"]

Respond(r) == [act |-> "respond", resp |-> r, kind |-> "none"]

Call(kind) == [act |-> "call", resp |-> NoResp, kind |-> kind]

InitializeResult == [NoResult EXCEPT !.some = TRUE, !.what = "initialize"]

\* handle_tools_list: tools.retain(|t| t.name != "ping") unless ping is enabled.
ListedTools == IF is_ping_enabled THEN tool_descriptors ELSE tool_descriptors \ {"ping"}

\* tools/list: the descriptors, ping retained only when enabled.
ToolsListResult ==
    [NoResult EXCEPT !.some = TRUE, !.what = "tools", !.ping = "ping" \in ListedTools]

handle_initialize(id) == Respond(rpc_ok(id, InitializeResult))

handle_tools_list(id) == Respond(rpc_ok(id, ToolsListResult))

\* handle_ping: a failed decode falls back to PingInput{message: None};
\* the message, "pong" when absent, is the envelope's text and output.
handle_ping(id, args) ==
    LET message == IF args.decodes /\ args.message.some THEN args.message.text ELSE "pong"
    IN  Respond(rpc_ok(id, [mcp_wrap([object |-> TRUE, meta |-> AbsentMeta, error |-> NoError],
                                     FALSE, args.include_rate)
                               EXCEPT !.what = "pong", !.message = message]))

\* The prologue shared by every other handler: decode the arguments, check
\* the limit where the tool has one, load the configuration.
handle_tool(id, name, args) ==
    IF ~args.decodes THEN Respond(rpc_error(id, -32602))
    ELSE IF name \in LimitTools /\ ~enforce_limit(args.limit).ok THEN Respond(rpc_error(id, -32602))
    ELSE IF ~config_from_env_ok THEN Respond(rpc_error(id, -32603))
    ELSE Call(FirstCall(name, args))

handle_tools_call(id, l) ==
    IF l.params # "ok" THEN Respond(rpc_error(id, -32602))
    ELSE IF l.name = "ping" THEN
        IF ~is_ping_enabled THEN Respond(rpc_error(id, -32601)) ELSE handle_ping(id, l.args)
    ELSE IF l.name \in ToolNames THEN handle_tool(id, l.name, l.args)
    ELSE Respond(rpc_error(id, -32601))

dispatch(id, l) ==
    CASE l.method = "initialize" -> handle_initialize(id)
      [] l.method = "tools/list" -> handle_tools_list(id)
      [] l.method = "tools/call" -> handle_tools_call(id, l)
      [] OTHER -> Respond(rpc_error(id, -32601))

\* A loop that treats no request as a notification.
IsNotificationNever(id) == FALSE

\* `request.id.is_none()`: the request is logged and left unanswered.
IsNotification(id) == id = NoneId

\* A parse error answered with another code.
ParseErrorResponseInvalidRequest == rpc_error(NoneId, -32600)

\* The answer to a line that does not parse.
ParseErrorResponse == rpc_error(NoneId, -32700)

\* The line takes handle_tools_call up to `IncludeRateGuard::set(include_rate)`.
SetsGuard(l) ==
    /\ l.k = "req"
    /\ ~IsNotification(ParseId(l.id))
    /\ l.method = "tools/call"
    /\ l.params = "ok"

\* The body of run_stdio_server's loop for one line.
run_line(l) ==
    CASE l.k = "empty" -> Skip
      [] l.k = "garbage" -> Respond(ParseErrorResponse)
      [] OTHER -> IF IsNotification(ParseId(l.id)) THEN Skip ELSE dispatch(ParseId(l.id), l)

(***************************************************************************)
(* The HTTP part of the handlers.  cur.stage names the request the handler *)
(* is waiting on: "call" (the single call of most tools), "pr", "reviews", *)
(* "files", "status", "check_runs" (pr_summary), "ref", "tag" (get_tag),   *)
(* "post" (rerun/cancel), "logs_get", "logs_zip" (get_workflow_job_logs).  *)
(* failed: some upstream request of this tool call failed; reqfail: one    *)
(* the handler checks the error of.  tries, last: once the handler is      *)
(* done, the number of attempts made for the last request it awaited and   *)
(* the status of the final one (0: no response).  guard: the flag value    *)
(* IncludeRateGuard saved.  meta: once the handler is done, the Meta it    *)
(* put in its output.                                                      *)
(***************************************************************************)
NoCur ==
    [stage |-> "none", failed |-> FALSE, reqfail |-> FALSE, tries |-> 0, last |-> 0,
     guard |-> FALSE, meta |-> NoMeta]

FirstStage(tool) ==
    CASE tool = "pr_summary" -> "pr"
      [] tool = "get_tag" -> "ref"
      [] tool \in DirectPostTools -> "post"
      [] tool = "get_workflow_job_logs" -> "logs_get"
      [] OTHER -> "call"

\* pr_summary: the requests it makes after the pull request itself, in order.
PrStages(inc) ==
    <<"pr">>
    \o (IF inc \in {"reviews", "all"} THEN <<"reviews">> ELSE <<>>)
    \o (IF inc \in {"files", "all"} THEN <<"files">> ELSE <<>>)
    \o (IF inc \in {"checks", "all"} THEN <<"status", "check_runs">> ELSE <<>>)

\* pr_summary reads only `.value` of these responses, never `.error`.
OptionalStages == {"reviews", "files", "status", "check_runs"}

StageKind(stage) == IF stage = "check_runs" THEN "rest_get_json_with_accept" ELSE "rest_get_json"

FinishMeta(err, meta) ==
    [done |-> TRUE, stage |-> "done", kind |-> "none", err |-> err, meta |-> meta]

Finish(err) == FinishMeta(err, NoMeta)

Proceed(stage, kind) ==
    [done |-> FALSE, stage |-> stage, kind |-> kind, err |-> NoError, meta |-> NoMeta]

Panic == [done |-> FALSE, stage |-> "panic", kind |-> "none", err |-> NoError, meta |-> NoMeta]

\* The tools whose meta copies pageInfo {hasNextPage, endCursor} of the
\* GraphQL response, and those that derive it from the Link header.
GraphqlPagedTools ==
    {"list_issues", "list_issue_comments_plain", "list_pull_requests",
     "list_pr_comments_plain", "list_pr_review_threads_light", "list_pr_reviews_light",
     "list_pr_reviews", "list_pr_commits_light", "list_pr_commits"}

RestPagedTools ==
    {"list_pr_review_comments_plain", "list_pr_review_comments", "list_pr_files_light",
     "list_pr_files", "list_workflows_light", "list_workflow_runs_light",
     "list_workflow_jobs_light", "list_repo_secrets_light", "list_repo_variables_light",
     "list_environments_light", "list_environment_variables_light", "list_commits",
     "list_tags", "list_branches", "list_releases", "list_starred_repositories",
     "search_issues", "search_pull_requests", "search_repositories"}

\* The {has_more, next_cursor is Some} a successful response can lead to:
\* whatever pageInfo holds (hasNextPage: bool, endCursor: Option<String>),
\* or `next_cursor = if has_more { Some(..) } else { None }`.
Pages(tool) ==
    IF tool \in GraphqlPagedTools THEN [has_more : BOOLEAN, next_cursor : BOOLEAN]
    ELSE IF tool \in RestPagedTools THEN {[has_more |-> h, next_cursor |-> h] : h \in BOOLEAN}
    ELSE {[has_more |-> FALSE, next_cursor |-> FALSE]}

PageMeta(p, rate) == [next_cursor |-> p.next_cursor, has_more |-> p.has_more, rate |-> rate]

AfterStage(seq, stage) ==
    LET i == CHOOSE j \in 1..Len(seq) : seq[j] = stage
    IN  IF i < Len(seq) THEN Proceed(seq[i + 1], StageKind(seq[i + 1])) ELSE Finish(NoError)

NotFound == [code |-> "not_found", retriable |-> FALSE]

\* What a handler does with the value an executor returned.
Continuations(tool, stage, args, ret) ==
    CASE tool = "pr_summary" ->
            \* meta.rate is pr_resp.meta.rate, Some whenever the PR request was answered
            IF stage = "pr" /\ ~ret.ok THEN {FinishMeta(ret.err, [NoMeta EXCEPT !.rate = ret.rate])}
            ELSE LET c == AfterStage(PrStages(args.inc), stage)
                 IN  {IF c.done THEN FinishMeta(c.err, [NoMeta EXCEPT !.rate = TRUE]) ELSE c}
      [] tool = "get_tag" ->
            IF ~ret.ok THEN {FinishMeta(ret.err, [NoMeta EXCEPT !.rate = ret.rate])}
            ELSE IF stage = "ref"
                THEN {FinishMeta(NoError, [NoMeta EXCEPT !.rate = ret.rate]),
                      Proceed("tag", "rest_get_json")}
            ELSE {FinishMeta(NoError, [NoMeta EXCEPT !.rate = ret.rate])}
      [] tool \in GraphqlQueryTools ->
            IF ~ret.ok THEN {Finish(ret.err)}
            ELSE IF ret.data = "null" THEN {Finish(NotFound)}
            ELSE {FinishMeta(NoError, PageMeta(p, ret.rate)) : p \in Pages(tool)}
      [] OTHER ->
            IF ~ret.ok THEN {FinishMeta(ret.err, [NoMeta EXCEPT !.rate = ret.rate])}
            ELSE {FinishMeta(NoError, PageMeta(p, ret.rate)) : p \in Pages(tool)}

(***************************************************************************)
(* Requests the handlers send themselves, outside the executors.           *)
(***************************************************************************)
IsRedirect(status) == status \in {301, 302, 307, 308}

DirectOutcomes ==
    {[t |-> "err", status |-> 0, loc |-> FALSE]}
    \cup [t : {"resp"}, status : {s \in Statuses : IsRedirect(s)}, loc : BOOLEAN]
    \cup [t : {"resp"}, status : {s \in Statuses : ~IsRedirect(s)}, loc : {FALSE}]

\* The download of the redirect target: no bytes, not a ZIP archive, an
\* archive with an entry by_index() rejects, a readable archive.
ZipOutcomes == {"unreachable", "invalid", "bad_entry", "ok"}

UpstreamError == [code |-> "upstream_error", retriable |-> TRUE]

\* rerun_workflow_run, rerun_workflow_run_failed, cancel_workflow_run.
DirectPost(o) ==
    IF o.t = "err" THEN Finish(UpstreamError)
    ELSE IF is_success(o.status) \/ o.status = 202 THEN Finish(NoError)
    ELSE Finish(map_status_to_error(o.status))

\* get_workflow_job_logs, first request.
LogsGet(o) ==
    IF o.t = "err" THEN Finish(UpstreamError)
    ELSE IF IsRedirect(o.status) THEN
        IF ~o.loc THEN Finish(UpstreamError) ELSE Proceed("logs_zip", "none")
    ELSE IF is_success(o.status) THEN Finish(NoError)
    ELSE Finish(map_status_to_error(o.status))

\* get_workflow_job_logs, the redirect target.
LogsZip(z) ==
    CASE z = "unreachable" -> Finish(UpstreamError)
      [] z = "invalid" -> Finish([code |-> "server_error", retriable |-> FALSE])
      [] z = "bad_entry" -> Panic
      [] OTHER -> Finish(NoError)

(***************************************************************************)
(* The actions of the server.                                              *)
(***************************************************************************)
\* A loop that reads ahead while a request is being processed.
LoopReadyAhead == pc \in {"await", "processing"}

\* The loop is at read_line.
LoopReady == pc = "await"

\* write_json_line_response: serialize, writeln, flush.
write_json_line_response(r) ==
    /\ resp' = r
    /\ out' = Append(out, WireId(r.id))

\* A handler moves on after a request: to its next request, to its response, or it panics.
Step(c, failedNow, required, tries, last) ==
    /\ cur' = [stage |-> c.stage,
               failed |-> cur.failed \/ failedNow,
               reqfail |-> cur.reqfail \/ (failedNow /\ required),
               tries |-> IF c.done THEN tries ELSE 0,
               last |-> IF c.done THEN last ELSE 0,
               guard |-> IF c.done \/ c.stage = "panic" THEN FALSE ELSE cur.guard,
               meta |-> IF c.done THEN c.meta ELSE NoMeta]
    /\ ex' = IF c.kind \in ExecKinds THEN ExStart(c.kind) ELSE ExIdle
    /\ IF c.done
       THEN /\ write_json_line_response(
                   ToolResponse(ParseId(line.id), c.err, c.meta, INCLUDE_RATE))
            /\ pc' = "await"
       ELSE /\ UNCHANGED <<resp, out>>
            /\ pc' = IF c.stage = "panic" THEN "crashed" ELSE pc
    /\ INCLUDE_RATE' = IF c.done \/ c.stage = "panic"
                       THEN IncludeRateGuardDrop(cur.guard, INCLUDE_RATE)
                       ELSE INCLUDE_RATE

\* read_line returned a line: one iteration of the loop, up to the response
\* or to the first HTTP request of the tool.
ReadLine ==
    /\ LoopReady
    /\ lines < MaxLines
    /\ \E l \in InputLines :
           LET d == run_line(l)
           IN  /\ line' = l
               /\ reqs' = IF l.k = "req" /\ l.id # "absent" THEN Append(reqs, l.id) ELSE reqs
               /\ CASE d.act = "skip" ->
                         /\ pc' = "await"
                         /\ resp' = NoResp
                         /\ UNCHANGED out
                         /\ cur' = NoCur
                         /\ ex' = ExIdle
                         /\ UNCHANGED INCLUDE_RATE
                    [] d.act = "respond" ->
                         /\ pc' = "await"
                         /\ write_json_line_response(d.resp)
                         /\ cur' = NoCur
                         /\ ex' = ExIdle
                         /\ INCLUDE_RATE' =
                                IF SetsGuard(l)
                                THEN IncludeRateGuardDrop(INCLUDE_RATE, l.args.include_rate)
                                ELSE INCLUDE_RATE
                    [] OTHER ->
                         /\ pc' = "processing"
                         /\ resp' = NoResp
                         /\ UNCHANGED out
                         /\ cur' = [NoCur EXCEPT !.stage = FirstStage(l.name),
                                                 !.guard = INCLUDE_RATE]
                         /\ ex' = IF d.kind \in ExecKinds THEN ExStart(d.kind) ELSE ExIdle
                         /\ INCLUDE_RATE' = l.args.include_rate
    /\ lines' = lines + 1
    /\ upstream' = FALSE
    /\ UNCHANGED <<env, fin, fout>>

\* read_line returned 0 bytes: the loop breaks and the server returns.
Eof ==
    /\ LoopReady
    /\ pc' = "eof"
    /\ UNCHANGED <<env, line, cur, reqs, lines, out, resp, ex, upstream, fin, fout, INCLUDE_RATE>>

\* An executor returned to the handler that awaited it.
ToolResume ==
    /\ pc = "processing"
    /\ ex.phase = "ret"
    /\ \E c \in Continuations(line.name, cur.stage, line.args, ex.ret) :
           Step(c, ~ex.ret.ok, cur.stage \notin OptionalStages, ex.sends, ex.status)
    /\ UNCHANGED <<env, line, reqs, lines, upstream, fin, fout>>

\* A panic inside an executor unwinds through block_on and the loop.
PanicUnwind ==
    /\ pc = "processing"
    /\ ex.phase = "panic"
    /\ pc' = "crashed"
    /\ INCLUDE_RATE' = IncludeRateGuardDrop(cur.guard, INCLUDE_RATE)
    /\ UNCHANGED <<env, line, cur, reqs, lines, out, resp, ex, upstream, fin, fout>>

\* The single POST of rerun/cancel, or the first GET of the job logs.
DirectSend ==
    /\ pc = "processing"
    /\ cur.stage \in {"post", "logs_get"}
    /\ \E o \in DirectOutcomes :
           LET c == IF cur.stage = "post" THEN DirectPost(o) ELSE LogsGet(o)
           IN  Step(c, c.done /\ c.err # NoError, TRUE, 1, o.status)
    /\ upstream' = TRUE
    /\ UNCHANGED <<env, line, reqs, lines, fin, fout>>

\* The GET of the redirect target and the reading of the archive.
LogsDownload ==
    /\ pc = "processing"
    /\ cur.stage = "logs_zip"
    /\ \E z \in ZipOutcomes :
           LET c == LogsZip(z)
           IN  Step(c, c.done /\ c.err # NoError, TRUE, 1, IF z = "unreachable" THEN 0 ELSE 200)
    /\ upstream' = TRUE
    /\ UNCHANGED <<env, line, reqs, lines, fin, fout>>

(***************************************************************************)
(* The server: the state after construction and the loop.                  *)
(***************************************************************************)
Envs == [token : BOOLEAN, ping : {PingUnset, PingSet(<<49>>)}]

\* No function is being called on its own.
NoArg == "none"

Init ==
    /\ env \in Envs
    /\ pc = "await"
    /\ line = NoLine
    /\ cur = NoCur
    /\ reqs = <<>>
    /\ lines = 0
    /\ out = <<>>
    /\ resp = NoResp
    /\ ex = ExIdle
    /\ upstream = FALSE
    /\ fin = NoArg
    /\ fout = NoArg
    /\ INCLUDE_RATE = FALSE

Next ==
    \/ ReadLine
    \/ Eof
    \/ ExAttempt
    \/ ExWake
    \/ ToolResume
    \/ PanicUnwind
    \/ DirectSend
    \/ LogsDownload

Spec == Init /\ [][Next]_vars

\* The server with its scheduling: block_on drives the handler's future, so
\* an attempt that can be made, a sleep that can end, a handler that can
\* resume and an unwinding that can proceed do; stdin may stay silent.
SpecFair ==
    /\ Spec
    /\ WF_vars(ExAttempt)
    /\ WF_vars(ExWake)
    /\ WF_vars(ToolResume)
    /\ WF_vars(PanicUnwind)
    /\ WF_vars(DirectSend)
    /\ WF_vars(LogsDownload)

(***************************************************************************)
(* One executor call on its own: any of the seven executors, started with  *)
(* a loaded configuration, against any upstream.                           *)
(***************************************************************************)
InitExec ==
    /\ env \in [token : {TRUE}, ping : {PingUnset, PingSet(<<49>>)}]
    /\ pc = "exec"
    /\ line = NoLine
    /\ cur = NoCur
    /\ reqs = <<>>
    /\ lines = 0
    /\ out = <<>>
    /\ resp = NoResp
    /\ ex \in {ExStart(k) : k \in ExecKinds}
    /\ upstream = FALSE
    /\ fin = NoArg
    /\ fout = NoArg
    /\ INCLUDE_RATE = FALSE

NextExec ==
    \/ ExAttempt
    \/ ExWake

SpecExec == InitExec /\ [][NextExec]_vars

\* The executor's loop runs on: a request that was sent ends (in a response,
\* or in an error at the latest at the client's timeout), and a sleep ends.
SpecExecFair == SpecExec /\ WF_vars(ExAttempt) /\ WF_vars(ExWake)

(***************************************************************************)
(* map_status_to_error on its own: any status code reqwest can hold and    *)
(* a message.                                                              *)
(***************************************************************************)
StatusCodes == 100..999

Messages == {"", "Not Found"}

InitClassify ==
    /\ env \in [token : {TRUE}, ping : {PingUnset}]
    /\ pc = "classify"
    /\ line = NoLine
    /\ cur = NoCur
    /\ reqs = <<>>
    /\ lines = 0
    /\ out = <<>>
    /\ resp = NoResp
    /\ ex = ExIdle
    /\ upstream = FALSE
    /\ fin \in [status : StatusCodes, message : Messages]
    /\ fout = NoArg
    /\ INCLUDE_RATE = FALSE

Classify ==
    /\ pc = "classify"
    /\ pc' = "classified"
    /\ fout' = [code |-> map_status_to_error(fin.status).code,
                message |-> fin.message,
                retriable |-> map_status_to_error(fin.status).retriable]
    /\ UNCHANGED <<env, line, cur, reqs, lines, out, resp, ex, upstream, fin, INCLUDE_RATE>>

NextClassify ==
    \/ Classify

SpecClassify == InitClassify /\ [][NextClassify]_vars

(***************************************************************************)
(* compute_backoff on its own: any attempt number, with or without a       *)
(* Retry-After, and any jitter fastrand can draw from 0..=max/2.  The      *)
(* result records the delay and the amount `1u64 <<` shifted by.           *)
(***************************************************************************)
RetryAfters == {-1, 0, 2}

BackoffArgs ==
    {[attempt |-> a, retry_after |-> r, jitter |-> j] :
        a \in 0..MaxAttemptArg, r \in RetryAfters, j \in 0..(BackoffMax(MaxAttemptArg) \div 2)}

InitBackoff ==
    /\ env \in [token : {TRUE}, ping : {PingUnset}]
    /\ pc = "backoff"
    /\ line = NoLine
    /\ cur = NoCur
    /\ reqs = <<>>
    /\ lines = 0
    /\ out = <<>>
    /\ resp = NoResp
    /\ ex = ExIdle
    /\ upstream = FALSE
    /\ fin \in {a \in BackoffArgs :
                   IF a.retry_after = -1 THEN a.jitter <= BackoffMax(a.attempt) \div 2
                   ELSE a.jitter = 0}
    /\ fout = NoArg
    /\ INCLUDE_RATE = FALSE

Backoff ==
    /\ pc = "backoff"
    /\ pc' = "backed_off"
    /\ fout' = [wait |-> compute_backoff(fin.attempt, fin.retry_after, fin.jitter),
                shift |-> Min(fin.attempt, 5)]
    /\ UNCHANGED <<env, line, cur, reqs, lines, out, resp, ex, upstream, fin, INCLUDE_RATE>>

NextBackoff ==
    \/ Backoff

SpecBackoff == InitBackoff /\ [][NextBackoff]_vars

(***************************************************************************)
(* mcp_wrap on its own: any structured output (not an object; an object    *)
(* without meta, with a meta that is not an object, or with any meta       *)
(* object) under either value of the include-rate flag.                    *)
(***************************************************************************)
Structureds ==
    {[object |-> FALSE, meta |-> AbsentMeta, error |-> NoError]}
    \cup [object : {TRUE}, meta : {AbsentMeta, ScalarMeta} \cup MetaObjects,
          error : {NoError, NotFound}]

InitWrap ==
    /\ env \in [token : {TRUE}, ping : {PingUnset}]
    /\ pc = "wrap"
    /\ line = NoLine
    /\ cur = NoCur
    /\ reqs = <<>>
    /\ lines = 0
    /\ out = <<>>
    /\ resp = NoResp
    /\ ex = ExIdle
    /\ upstream = FALSE
    /\ fin \in [structured : Structureds, include_rate : BOOLEAN]
    /\ fout = NoArg
    /\ INCLUDE_RATE = FALSE

Wrap ==
    /\ pc = "wrap"
    /\ pc' = "wrapped"
    /\ fout' = mcp_wrap(fin.structured, fin.structured.error # NoError, fin.include_rate)
    /\ UNCHANGED <<env, line, cur, reqs, lines, out, resp, ex, upstream, fin, INCLUDE_RATE>>

NextWrap ==
    \/ Wrap

SpecWrap == InitWrap /\ [][NextWrap]_vars

(***************************************************************************)
(* The REST cursor codec of http/mod.rs, on bytes.  A RestCursor is        *)
(* {page, per_page, path}; page and per_page are u32, written here as      *)
(* their decimal digits (most significant first, no leading zero), path is *)
(* Option<String>, written as [some, bytes] with the UTF-8 bytes of the    *)
(* string.  A token is the sequence of the ASCII codes of its characters.  *)
(* Paths are drawn from printable characters, the quote and the backslash  *)
(* included; JSON values the parser meets are scalars.                     *)
(***************************************************************************)
NoPath == [some |-> FALSE, bytes |-> <<>>]

SomePath(bytes) == [some |-> TRUE, bytes |-> bytes]

U32Max == <<4, 2, 9, 4, 9, 6, 7, 2, 9, 5>>

RECURSIVE DigitsLeq(_, _)
\* a <= b for two digit sequences of the same length
DigitsLeq(a, b) ==
    IF a = <<>> THEN TRUE
    ELSE IF Head(a) # Head(b) THEN Head(a) < Head(b)
    ELSE DigitsLeq(Tail(a), Tail(b))

\* A number parser without the range check.
FitsU32Unchecked(d) == TRUE

\* The digits are those of a value that fits u32.
FitsU32(d) == Len(d) < Len(U32Max) \/ (Len(d) = Len(U32Max) /\ DigitsLeq(d, U32Max))

DigitBytes(d) == [i \in 1..Len(d) |-> 48 + d[i]]

\* F applied to the value of v, which is computed once however often F
\* reads it.
Once(v, F(_)) == CHOOSE r \in {F(x) : x \in {v}} : TRUE

RECURSIVE EscapeJson(_)
\* serde_json's string escaping of `"` and `\`: each byte gives its own
\* output, so the two halves of the string are escaped apart and joined.
EscapeJson(bytes) ==
    Once(bytes, LAMBDA s :
        IF s = <<>> THEN <<>>
        ELSE IF Len(s) = 1 THEN
            IF s[1] \in {34, 92} THEN <<92, s[1]>> ELSE s
        ELSE EscapeJson(SubSeq(s, 1, Len(s) \div 2))
                 \o EscapeJson(SubSeq(s, Len(s) \div 2 + 1, Len(s))))

\* serde_json::to_vec(&c): {"page":P,"per_page":N} with ,"path":"S" before
\* the brace when path is Some (skip_serializing_if = "Option::is_none").
to_vec(c) ==
    <<123, 34, 112, 97, 103, 101, 34, 58>> \o DigitBytes(c.page)
    \o <<44, 34, 112, 101, 114, 95, 112, 97, 103, 101, 34, 58>> \o DigitBytes(c.per_page)
    \o (IF c.path.some
        THEN <<44, 34, 112, 97, 116, 104, 34, 58, 34>> \o EscapeJson(c.path.bytes) \o <<34>>
        ELSE <<>>)
    \o <<125>>

\* The URL-safe alphabet: A-Z a-z 0-9 - _
Base64Char(v) ==
    IF v < 26 THEN 65 + v
    ELSE IF v < 52 THEN 97 + (v - 26)
    ELSE IF v < 62 THEN 48 + (v - 52)
    ELSE IF v = 62 THEN 45 ELSE 95

\* The value of a character of the alphabet, -1 for any other character.
Base64Value(ch) ==
    IF ch >= 65 /\ ch <= 90 THEN ch - 65
    ELSE IF ch >= 97 /\ ch <= 122 THEN ch - 97 + 26
    ELSE IF ch >= 48 /\ ch <= 57 THEN ch - 48 + 52
    ELSE IF ch = 45 THEN 62
    ELSE IF ch = 95 THEN 63
    ELSE -1

\* The byte at position k, 0 past the end (the bits a last group lacks).
ByteOrZero(b, k) == IF k <= Len(b) THEN b[k] ELSE 0

\* URL_SAFE_NO_PAD.encode: three bytes to four characters, no padding.
\* Character j is the r-th of group g, made of the bytes 3g+1 .. 3g+3.
Base64Encode(b) ==
    Once(b, LAMBDA s :
        <<>> \o [j \in 1..((4 * Len(s) + 2) \div 3) |->
            LET g == (j - 1) \div 4
                r == (j - 1) % 4
                b1 == ByteOrZero(s, 3 * g + 1)
                b2 == ByteOrZero(s, 3 * g + 2)
                b3 == ByteOrZero(s, 3 * g + 3)
            IN  Base64Char(IF r = 0 THEN b1 \div 4
                           ELSE IF r = 1 THEN (b1 % 4) * 16 + b2 \div 16
                           ELSE IF r = 2 THEN (b2 % 16) * 4 + b3 \div 64
                           ELSE b3 % 64)])

\* Four values to three bytes; a last group of two or three values gives
\* one or two.  Byte k is the r-th of group g, made of the values
\* 4g+1 .. 4g+4.
Base64DecodeValues(v) ==
    <<>> \o [k \in 1..((3 * Len(v)) \div 4) |->
        LET g == (k - 1) \div 3
            r == (k - 1) % 3
        IN  IF r = 0 THEN v[4 * g + 1] * 4 + v[4 * g + 2] \div 16
            ELSE IF r = 1 THEN (v[4 * g + 2] % 16) * 16 + v[4 * g + 3] \div 4
            ELSE (v[4 * g + 3] % 4) * 64 + v[4 * g + 4]]

\* URL_SAFE_NO_PAD.decode: fails on a character outside the alphabet (the
\* padding `=` included), on a length of 1 modulo 4 and on trailing bits
\* that are not zero.
Base64Decode(t) ==
    Once(<<>> \o [i \in 1..Len(t) |-> Base64Value(t[i])], LAMBDA v :
        LET n == Len(v)
        IN  IF \E i \in 1..n : v[i] = -1 THEN [ok |-> FALSE, bytes |-> <<>>]
            ELSE IF n % 4 = 1 THEN [ok |-> FALSE, bytes |-> <<>>]
            ELSE IF n % 4 = 2 /\ v[n] % 16 # 0 THEN [ok |-> FALSE, bytes |-> <<>>]
            ELSE IF n % 4 = 3 /\ v[n] % 4 # 0 THEN [ok |-> FALSE, bytes |-> <<>>]
            ELSE [ok |-> TRUE, bytes |-> Base64DecodeValues(v)])

IsWs(ch) == ch \in {32, 9, 10, 13}

IsDigit(ch) == ch >= 48 /\ ch <= 57

RECURSIVE SkipWs(_, _)
SkipWs(b, i) == IF i <= Len(b) /\ IsWs(b[i]) THEN SkipWs(b, i + 1) ELSE i

JsonFail == [ok |-> FALSE, t |-> "none", digits |-> <<>>, bytes |-> <<>>, next |-> 0]

\* The character at position j of the string that starts at i follows an
\* escaping backslash: the run of backslashes that ends just before it has
\* odd length.
Escaped(b, i, j) ==
    IF j = i \/ b[j - 1] # 92 THEN FALSE
    ELSE Once(CHOOSE k \in (i - 1)..(j - 1) :
                 /\ k = i - 1 \/ b[k] # 92
                 /\ \A m \in (k + 1)..(j - 1) : b[m] = 92,
              LAMBDA stop : (j - 1 - stop) % 2 = 1)

\* The characters of a JSON string from position i up to its closing quote:
\* the first quote that is not escaped ends it, a backslash escapes `"`,
\* `\` or `/`, and a control character fails.  `kept` are the positions
\* of the characters of the value, the escaping backslashes left out.
ParseStringBody(b, i) ==
    Once({j \in i..Len(b) : b[j] = 34 /\ ~Escaped(b, i, j)}, LAMBDA quotes :
        IF quotes = {} THEN JsonFail
        ELSE Once(CHOOSE j \in quotes : \A k \in quotes : j <= k, LAMBDA close :
             Once(SelectSeq(<<>> \o [n \in 1..(close - i) |-> i + n - 1],
                            LAMBDA k : b[k] # 92 \/ Escaped(b, i, k)), LAMBDA kept :
                 IF \E n \in 1..Len(kept) :
                        IF Escaped(b, i, kept[n]) THEN b[kept[n]] \notin {34, 92, 47}
                        ELSE b[kept[n]] < 32
                 THEN JsonFail
                 ELSE [ok |-> TRUE, t |-> "str", digits |-> <<>>,
                       bytes |-> <<>> \o [n \in 1..Len(kept) |-> b[kept[n]]],
                       next |-> close + 1])))

RECURSIVE ParseDigits(_, _, _)
ParseDigits(b, i, acc) ==
    IF i <= Len(b) /\ IsDigit(b[i]) THEN ParseDigits(b, i + 1, Append(acc, b[i] - 48))
    ELSE [digits |-> acc, next |-> i]

Literal(b, i, word) == i + Len(word) - 1 <= Len(b) /\ SubSeq(b, i, i + Len(word) - 1) = word

\* One scalar JSON value at position i: a string, a number, null, true, false.
ParseValue(b, i) ==
    IF i > Len(b) THEN JsonFail
    ELSE IF b[i] = 34 THEN ParseStringBody(b, i + 1)
    ELSE IF IsDigit(b[i]) \/ b[i] = 45 THEN
        Once(ParseDigits(b, IF b[i] = 45 THEN i + 1 ELSE i, <<>>), LAMBDA d :
            IF d.digits = <<>> THEN JsonFail
            ELSE IF Len(d.digits) > 1 /\ d.digits[1] = 0 THEN JsonFail
            ELSE [ok |-> TRUE, t |-> IF b[i] = 45 THEN "neg" ELSE "num", digits |-> d.digits,
                  bytes |-> <<>>, next |-> d.next])
    ELSE IF Literal(b, i, <<110, 117, 108, 108>>)
        THEN [ok |-> TRUE, t |-> "null", digits |-> <<>>, bytes |-> <<>>, next |-> i + 4]
    ELSE IF Literal(b, i, <<116, 114, 117, 101>>)
        THEN [ok |-> TRUE, t |-> "bool", digits |-> <<>>, bytes |-> <<>>, next |-> i + 4]
    ELSE IF Literal(b, i, <<102, 97, 108, 115, 101>>)
        THEN [ok |-> TRUE, t |-> "bool", digits |-> <<>>, bytes |-> <<>>, next |-> i + 5]
    ELSE JsonFail

NoCursor == [some |-> FALSE, page |-> <<>>, per_page |-> <<>>, path |-> NoPath]

SomeCursor(page, per_page, path) ==
    [some |-> TRUE, page |-> page, per_page |-> per_page, path |-> path]

\* The fields collected while the object is read: `seen` per field.
NoFields ==
    [page |-> [seen |-> FALSE, digits |-> <<>>], per_page |-> [seen |-> FALSE, digits |-> <<>>],
     path |-> [seen |-> FALSE, value |-> NoPath]]

KeyPage == <<112, 97, 103, 101>>

KeyPerPage == <<112, 101, 114, 95, 112, 97, 103, 101>>

KeyPath == <<112, 97, 116, 104>>

\* The derived Deserialize for one member: a known field must not repeat
\* and must have its type; any other member is ignored.
TakeField(f, key, v) ==
    IF key = KeyPage THEN
        IF f.page.seen \/ v.t # "num" \/ ~FitsU32(v.digits) THEN [ok |-> FALSE, f |-> f]
        ELSE [ok |-> TRUE, f |-> [f EXCEPT !.page = [seen |-> TRUE, digits |-> v.digits]]]
    ELSE IF key = KeyPerPage THEN
        IF f.per_page.seen \/ v.t # "num" \/ ~FitsU32(v.digits) THEN [ok |-> FALSE, f |-> f]
        ELSE [ok |-> TRUE, f |-> [f EXCEPT !.per_page = [seen |-> TRUE, digits |-> v.digits]]]
    ELSE IF key = KeyPath THEN
        IF f.path.seen \/ v.t \notin {"str", "null"} THEN [ok |-> FALSE, f |-> f]
        ELSE [ok |-> TRUE,
              f |-> [f EXCEPT !.path = [seen |-> TRUE,
                                        value |-> IF v.t = "str" THEN SomePath(v.bytes)
                                                  ELSE NoPath]]]
    ELSE [ok |-> TRUE, f |-> f]

RECURSIVE ParseMembers(_, _, _)
\* The members of the object from position i (at a key) to the end of input.
ParseMembers(b, i, f) ==
    Once(SkipWs(b, i), LAMBDA k :
    IF k > Len(b) \/ b[k] # 34 THEN NoCursor
    ELSE Once(ParseStringBody(b, k + 1), LAMBDA key :
         Once(SkipWs(b, key.next), LAMBDA c :
         IF ~key.ok \/ c > Len(b) \/ b[c] # 58 THEN NoCursor
         ELSE Once(ParseValue(b, SkipWs(b, c + 1)), LAMBDA v :
              Once(SkipWs(b, v.next), LAMBDA e :
              Once(TakeField(f, key.bytes, v), LAMBDA g :
              IF ~v.ok \/ ~g.ok \/ e > Len(b) THEN NoCursor
              ELSE IF b[e] = 44 THEN ParseMembers(b, e + 1, g.f)
              ELSE IF b[e] = 125 /\ SkipWs(b, e + 1) > Len(b) THEN
                  IF g.f.page.seen /\ g.f.per_page.seen
                  THEN SomeCursor(g.f.page.digits, g.f.per_page.digits, g.f.path.value)
                  ELSE NoCursor
              ELSE NoCursor))))))

\* The struct read from an array: exactly [page, per_page, path].
ParseElements(b, i) ==
    Once(ParseValue(b, SkipWs(b, i)), LAMBDA v1 :
    Once(SkipWs(b, v1.next), LAMBDA c1 :
    IF ~v1.ok \/ c1 > Len(b) \/ b[c1] # 44 THEN NoCursor
    ELSE Once(ParseValue(b, SkipWs(b, c1 + 1)), LAMBDA v2 :
         Once(SkipWs(b, v2.next), LAMBDA c2 :
         IF ~v2.ok \/ c2 > Len(b) \/ b[c2] # 44 THEN NoCursor
         ELSE Once(ParseValue(b, SkipWs(b, c2 + 1)), LAMBDA v3 :
              Once(SkipWs(b, v3.next), LAMBDA c3 :
              IF ~v3.ok \/ c3 > Len(b) \/ b[c3] # 93 THEN NoCursor
              ELSE IF SkipWs(b, c3 + 1) <= Len(b) THEN NoCursor
              ELSE IF v1.t # "num" \/ ~FitsU32(v1.digits) THEN NoCursor
              ELSE IF v2.t # "num" \/ ~FitsU32(v2.digits) THEN NoCursor
              ELSE IF v3.t \notin {"str", "null"} THEN NoCursor
              ELSE SomeCursor(v1.digits, v2.digits,
                              IF v3.t = "str" THEN SomePath(v3.bytes) ELSE NoPath)))))))

\* serde_json::from_slice::<RestCursor>(&bytes).ok(): the struct is read
\* from an object, or from an array of its three fields.
from_slice(b) ==
    Once(SkipWs(b, 1), LAMBDA i :
        IF i > Len(b) THEN NoCursor
        ELSE IF b[i] = 91 THEN ParseElements(b, i + 1)
        ELSE IF b[i] # 123 THEN NoCursor
        ELSE Once(SkipWs(b, i + 1), LAMBDA k :
                 IF k <= Len(b) /\ b[k] = 125 THEN NoCursor
                 ELSE ParseMembers(b, i + 1, NoFields)))

\* An encoder that drops the path.
encode_rest_cursor_without_path(c) == Base64Encode(to_vec([c EXCEPT !.path = NoPath]))

encode_rest_cursor(c) == Base64Encode(to_vec(c))

decode_rest_cursor(t) ==
    Once(Base64Decode(t), LAMBDA bytes :
        IF ~bytes.ok THEN NoCursor ELSE from_slice(bytes.bytes))

(***************************************************************************)
(* The cursor codec on its own: encode_rest_cursor applied to a cursor and *)
(* decode_rest_cursor to the token it returned, and decode_rest_cursor     *)
(* applied to a token a caller passes.                                     *)
(***************************************************************************)
U32Samples == {<<0>>, <<1>>, <<2>>, <<3, 0>>, <<1, 0, 0>>, U32Max}

\* "", "/r?page=2", `a"b`, `\` followed by U+00E9.
PathSamples ==
    {NoPath, SomePath(<<>>), SomePath(<<47, 114, 63, 112, 97, 103, 101, 61, 50>>),
     SomePath(<<97, 34, 98>>), SomePath(<<92, 195, 169>>)}

Cursors == [page : U32Samples, per_page : U32Samples, path : PathSamples]

\* Tokens that are not the base64 of a cursor: the empty string; `!!!`;
\* one character; unpadded base64 of `not json` and the same with its
\* padding; the base64 of {"page":1} and the same with trailing bits set;
\* a page of 4294967296; a negative page; a GraphQL cursor (base64 of
\* `cursor:10`); the plain text `page=2`.
InvalidTokens ==
    {<<>>, <<33, 33, 33>>, <<65>>,
     <<98, 109, 57, 48, 73, 71, 112, 122, 98, 50, 52>>,
     <<98, 109, 57, 48, 73, 71, 112, 122, 98, 50, 52, 61>>,
     <<101, 121, 74, 119, 89, 87, 100, 108, 73, 106, 111, 120, 102, 81>>,
     <<101, 121, 74, 119, 89, 87, 100, 108, 73, 106, 111, 120, 102, 82>>,
     <<101, 121, 74, 119, 89, 87, 100, 108, 73, 106, 111, 48, 77, 106, 107, 48, 79, 84, 89, 51, 77, 106, 107, 50, 76, 67, 74, 119, 90, 88, 74, 102, 99, 71, 70, 110, 90, 83, 73, 54, 77, 88, 48>>,
     <<101, 121, 74, 119, 89, 87, 100, 108, 73, 106, 111, 116, 77, 83, 119, 105, 99, 71, 86, 121, 88, 51, 66, 104, 90, 50, 85, 105, 79, 106, 70, 57>>,
     <<89, 51, 86, 121, 99, 50, 57, 121, 79, 106, 69, 119>>,
     <<112, 97, 103, 101, 61, 50>>}

\* Tokens no encoder here wrote that still hold a cursor: members in another
\* order with white space and an unknown member; the array [2,30,null].
ForeignTokens ==
    {<<73, 72, 115, 105, 99, 71, 86, 121, 88, 51, 66, 104, 90, 50, 85, 105, 79, 106, 85, 115, 73, 67, 74, 52, 73, 106, 111, 105, 101, 83, 73, 115, 73, 67, 74, 119, 89, 87, 100, 108, 73, 106, 111, 51, 102, 81>>,
     <<87, 122, 73, 115, 77, 122, 65, 115, 98, 110, 86, 115, 98, 70, 48>>}

InitCursor ==
    /\ env \in [token : {TRUE}, ping : {PingUnset}]
    /\ line = NoLine
    /\ cur = NoCur
    /\ reqs = <<>>
    /\ lines = 0
    /\ out = <<>>
    /\ resp = NoResp
    /\ ex = ExIdle
    /\ upstream = FALSE
    /\ \/ pc = "cursor" /\ fin \in Cursors
       \/ pc = "token" /\ fin \in [token : InvalidTokens \cup ForeignTokens]
    /\ fout = NoArg
    /\ INCLUDE_RATE = FALSE

EncodeCursor ==
    /\ pc = "cursor"
    /\ pc' = "encoded"
    /\ fout' = [token |-> encode_rest_cursor(fin), cursor |-> NoCursor]
    /\ UNCHANGED <<env, line, cur, reqs, lines, out, resp, ex, upstream, fin, INCLUDE_RATE>>

DecodeCursor ==
    /\ pc \in {"encoded", "token"}
    /\ pc' = IF pc = "encoded" THEN "roundtrip" ELSE "decoded"
    /\ LET token == IF pc = "encoded" THEN fout.token ELSE fin.token
       IN  fout' = [token |-> token, cursor |-> decode_rest_cursor(token)]
    /\ UNCHANGED <<env, line, cur, reqs, lines, out, resp, ex, upstream, fin, INCLUDE_RATE>>

NextCursor ==
    \/ EncodeCursor
    \/ DecodeCursor

SpecCursor == InitCursor /\ [][NextCursor]_vars

(***************************************************************************)
(* One list call-site. REST: the page, the page size and the path it       *)
(* requests from the caller's cursor, page and limit, the cursor it emits  *)
(* from the reply's Link header, and the follow-up call with that cursor.  *)
(* GraphQL: the `after` variable it sends and the next_cursor it returns.  *)
(***************************************************************************)
NoNum == [some |-> FALSE, digits |-> <<>>]

SomeNum(d) == [some |-> TRUE, digits |-> d]

NoToken == [some |-> FALSE, token |-> <<>>]

SomeToken(t) == [some |-> TRUE, token |-> t]

\* Option<u32>::unwrap_or
unwrap_or(n, d) == IF n.some THEN n.digits ELSE d

\* u32::min(100)
Min100(d) == IF Len(d) < 3 \/ d = <<1, 0, 0>> THEN d ELSE <<1, 0, 0>>

RECURSIVE IncDigits(_)
IncDigits(d) ==
    IF d = <<>> THEN <<1>>
    ELSE IF d[Len(d)] < 9 THEN [d EXCEPT ![Len(d)] = @ + 1]
    ELSE IncDigits(SubSeq(d, 1, Len(d) - 1)) \o <<0>>

\* `page + 1` on u32: past 4294967295 the build with overflow checks
\* panics (no value) and the build without them wraps to 0.
PageSucc(d) ==
    IF FitsU32(IncDigits(d)) THEN {SomeNum(IncDigits(d))} ELSE {NoNum, SomeNum(<<0>>)}

\* enforce_limit on decimal digits: the limit, 30 when absent; an error for
\* 0 and above 100.
enforce_limit_u32(limit) ==
    LET l == unwrap_or(limit, <<3, 0>>)
    IN  IF l = <<0>> \/ Min100(l) # l THEN NoNum ELSE SomeNum(l)

\* cursor.and_then(decode_rest_cursor)
decoded_cursor(cursor) == IF cursor.some THEN decode_rest_cursor(cursor.token) ELSE NoCursor

\* parse_page_cursor, with `decoded` for decode_rest_cursor(&c): the
\* handler's page, page size and the cursor it keeps.
parse_page_cursor(cursor, decoded, page, per_page) ==
    IF cursor.some /\ decoded.some
    THEN [page |-> decoded.page, per_page |-> decoded.per_page, cur |-> cursor, path |-> NoPath]
    ELSE [page |-> unwrap_or(page, <<1>>), per_page |-> Min100(unwrap_or(per_page, <<3, 0>>)),
          cur |-> NoToken, path |-> NoPath]

page_per_from_cursor(cursor, decoded, limit) == parse_page_cursor(cursor, decoded, NoNum, limit)

\* handle_list_pr_review_comments reads the cursor itself and keeps its
\* path; `decoded` is its decoded_cursor.
review_comments_page(cursor, decoded, limit) ==
    IF decoded.some
    THEN [page |-> decoded.page, per_page |-> decoded.per_page, cur |-> cursor, path |-> decoded.path]
    ELSE [page |-> <<1>>, per_page |-> limit, cur |-> NoToken, path |-> NoPath]

\* These take page and per_page and have no cursor field.
PageOnlyTools == {"list_workflows_light"}

\* These take cursor, page and per_page.
PageCursorTools == {"list_repo_secrets_light"}

\* These take cursor and limit.
LimitCursorTools == {"list_tags", "list_commits", "list_pr_review_comments"}

PageTools == PageOnlyTools \cup PageCursorTools \cup LimitCursorTools

\* The resource each of them lists, with `/r` for /repos/{owner}/{repo}
\* (and /actions, /pulls), and pull 1.
Resource(tool) ==
    CASE tool = "list_workflows_light" ->
           <<47, 114, 47, 119, 111, 114, 107, 102, 108, 111, 119, 115>>
      [] tool = "list_repo_secrets_light" ->
           <<47, 114, 47, 115, 101, 99, 114, 101, 116, 115>>
      [] tool = "list_tags" ->
           <<47, 114, 47, 116, 97, 103, 115>>
      [] tool = "list_commits" ->
           <<47, 114, 47, 99, 111, 109, 109, 105, 116, 115>>
      [] OTHER ->
           <<47, 114, 47, 49, 47, 99, 111, 109, 109, 101, 110, 116, 115>>

\* format!("{resource}?per_page={}&page={}", per_page, page)
FormatPath(tool, per_page, page) ==
    Resource(tool) \o <<63, 112, 101, 114, 95, 112, 97, 103, 101, 61>> \o DigitBytes(per_page)
        \o <<38, 112, 97, 103, 101, 61>> \o DigitBytes(page)

\* A call's rejection.
PageRejected ==
    [ok |-> FALSE, page |-> <<>>, per_page |-> <<>>, cur |-> NoToken, path |-> <<>>, decoded |-> NoCursor]

\* What the handler asks the upstream for: its page and page size, and the
\* path of the request; `decoded` is what decode_rest_cursor made of the
\* cursor the handler reads (none for the tools that read no cursor).
PageRequest(tool, args) ==
    LET limit == enforce_limit_u32(args.size)
        cursor == IF tool \in PageOnlyTools THEN NoToken ELSE args.cursor
    IN  IF tool \in LimitCursorTools /\ ~limit.some THEN PageRejected
        ELSE Once(decoded_cursor(cursor), LAMBDA decoded :
             Once(IF tool \in PageOnlyTools \cup PageCursorTools
                  THEN parse_page_cursor(cursor, decoded, args.page, args.size)
                  ELSE IF tool = "list_pr_review_comments"
                  THEN review_comments_page(cursor, decoded, limit.digits)
                  ELSE page_per_from_cursor(cursor, decoded, limit), LAMBDA p :
             [ok |-> TRUE, page |-> p.page, per_page |-> p.per_page, cur |-> p.cur,
              path |-> IF p.path.some THEN p.path.bytes ELSE FormatPath(tool, p.per_page, p.page),
              decoded |-> decoded]))

\* A reply's Link header: absent; present with or without a rel="next"
\* entry, whose target is an absolute URL with `path` as its path and query,
\* or `path` itself, or missing (no <...> in the entry).
NoLink == [present |-> FALSE, next |-> FALSE, target |-> "none", path |-> <<>>]

\* /r/1/comments?page=2
NextByPage ==
    <<47, 114, 47, 49, 47, 99, 111, 109, 109, 101, 110, 116, 115, 63, 112, 97, 103, 101, 61, 50>>

\* /r/1/commits?after=Y3
NextByAfter ==
    <<47, 114, 47, 49, 47, 99, 111, 109, 109, 105, 116, 115, 63, 97, 102, 116, 101, 114, 61, 89, 51>>

Links ==
    {NoLink, [present |-> TRUE, next |-> FALSE, target |-> "none", path |-> <<>>],
     [present |-> TRUE, next |-> TRUE, target |-> "none", path |-> <<>>]}
    \cup [present : {TRUE}, next : {TRUE}, target : {"absolute", "relative"},
          path : {NextByPage, NextByAfter}]

has_next_page_from_link(link) == link.present /\ link.next

extract_next_path_from_link(link) ==
    IF link.present /\ link.next /\ link.target # "none" THEN SomePath(link.path) ELSE NoPath

\* The path the emitted cursor carries: only handle_list_pr_review_comments
\* reads the Link header's next path.
NextPath(tool, link) ==
    IF tool = "list_pr_review_comments" THEN extract_next_path_from_link(link) ELSE NoPath

\* The Meta's next_cursor for a page whose successor is `succ`.
NextCursorToken(tool, req, link, succ) ==
    IF has_next_page_from_link(link)
    THEN SomeToken(encode_rest_cursor([page |-> succ, per_page |-> req.per_page,
                                       path |-> NextPath(tool, link)]))
    ELSE NoToken

\* Cursors a caller holds from earlier calls: page 7 of 30, page 2 of 5,
\* page 4294967295, and page 2 of 5 with a next path.
HeldTokens ==
    {encode_rest_cursor(c) :
        c \in {[page |-> <<7>>, per_page |-> <<3, 0>>, path |-> NoPath],
               [page |-> <<2>>, per_page |-> <<5>>, path |-> NoPath],
               [page |-> U32Max, per_page |-> <<3, 0>>, path |-> NoPath],
               [page |-> <<2>>, per_page |-> <<5>>, path |-> SomePath(NextByPage)]}}

\* A cursor the caller wrote itself: page 1 of 30 with the path /user.
CraftedTokens ==
    {encode_rest_cursor([page |-> <<1>>, per_page |-> <<3, 0>>,
                         path |-> SomePath(<<47, 117, 115, 101, 114>>)])}

PageCalls ==
    [tool : PageTools,
     cursor : {NoToken} \cup {SomeToken(t) : t \in InvalidTokens \cup ForeignTokens
                                                  \cup HeldTokens \cup CraftedTokens},
     page : {NoNum, SomeNum(<<3>>)},
     size : {NoNum, SomeNum(<<5>>), SomeNum(<<0>>)},
     first : {TRUE},
     link : {NoLink},
     prev : {PageRejected}]

\* The GraphQL list tools: their cursor is the upstream's own.
GraphqlListTools == {"list_issues", "list_pr_comments_plain"}

\* Cursor strings a caller or the upstream may hold: a GraphQL cursor
\* (`Y3Vyc29yOjEw`), `a"b\`, and tokens the REST codec can decode.
CursorStrings ==
    {<<89, 51, 86, 121, 99, 50, 57, 121, 79, 106, 69, 119>>, <<97, 34, 98, 92>>}
    \cup ForeignTokens
    \cup {encode_rest_cursor([page |-> <<2>>, per_page |-> <<5>>, path |-> NoPath])}

\* An optional string written as a JSON value and read back by the peer.
JsonString(s) ==
    IF s.some
    THEN Once(<<34>> \o EscapeJson(s.token) \o <<34>>, LAMBDA b : SomeToken(ParseValue(b, 1).bytes))
    ELSE NoToken

\* A handler that passes the cursor through the REST codec.
GraphqlAfterRecoded(cursor) ==
    Once(decoded_cursor(cursor), LAMBDA d :
        IF d.some
        THEN SomeToken(encode_rest_cursor([page |-> d.page, per_page |-> d.per_page, path |-> d.path]))
        ELSE NoToken)

\* The `after` variable of the query: input.cursor.
GraphqlAfter(cursor) == cursor

\* Meta.next_cursor: pageInfo.endCursor.
GraphqlNextCursor(pageInfo) == pageInfo.endCursor

PageInfos == [hasNextPage : BOOLEAN, endCursor : {NoToken} \cup {SomeToken(t) : t \in CursorStrings}]

NoPageInfo == [hasNextPage |-> FALSE, endCursor |-> NoToken]

GraphqlCalls ==
    [tool : GraphqlListTools,
     cursor : {NoToken} \cup {SomeToken(t) : t \in CursorStrings},
     page : {NoNum},
     size : {NoNum},
     first : {TRUE},
     link : {NoLink},
     prev : {PageRejected}]

NoPage == [req |-> PageRejected, link |-> NoLink, next |-> NoToken]

InitPage ==
    /\ env \in [token : {TRUE}, ping : {PingUnset}]
    /\ line = NoLine
    /\ cur = NoCur
    /\ reqs = <<>>
    /\ lines = 0
    /\ out = <<>>
    /\ resp = NoResp
    /\ ex = ExIdle
    /\ upstream = FALSE
    /\ \/ pc = "page_call" /\ fin \in PageCalls
       \/ pc = "graphql_call" /\ fin \in GraphqlCalls
    /\ fout = NoPage
    /\ INCLUDE_RATE = FALSE

\* The handler up to its request.
PageCall ==
    /\ pc = "page_call"
    /\ \E req \in {PageRequest(fin.tool, fin)} :
           /\ fout' = [req |-> req, link |-> NoLink, next |-> NoToken]
           /\ pc' = IF req.ok THEN "page_sent" ELSE "page_rejected"
    /\ UNCHANGED <<env, line, cur, reqs, lines, out, resp, ex, upstream, fin, INCLUDE_RATE>>

\* The reply's Link header and the Meta built from it.
PageReply ==
    /\ pc = "page_sent"
    /\ \E link \in Links :
         IF has_next_page_from_link(link)
         THEN \E succ \in PageSucc(fout.req.page) :
                IF succ.some
                THEN /\ pc' = "page_done"
                     /\ fout' = [fout EXCEPT !.link = link,
                                             !.next = NextCursorToken(fin.tool, fout.req, link, succ.digits)]
                ELSE /\ pc' = "page_panic"
                     /\ fout' = [fout EXCEPT !.link = link]
         ELSE /\ pc' = "page_done"
              /\ fout' = [fout EXCEPT !.link = link]
    /\ UNCHANGED <<env, line, cur, reqs, lines, out, resp, ex, upstream, fin, INCLUDE_RATE>>

\* The caller's next call, with the cursor the Meta gave it; `prev` keeps
\* the request the handler made for the page before.
PageFollowUp ==
    /\ pc = "page_done"
    /\ fin.first
    /\ fout.next.some
    /\ pc' = "page_call"
    /\ fin' = [fin EXCEPT !.cursor = fout.next, !.first = FALSE, !.link = fout.link,
                           !.prev = fout.req]
    /\ fout' = NoPage
    /\ UNCHANGED <<env, line, cur, reqs, lines, out, resp, ex, upstream, INCLUDE_RATE>>

\* A GraphQL list handler up to its query: `after` is what the upstream
\* reads from the variables of the request body.
GraphqlPageCall ==
    /\ pc = "graphql_call"
    /\ pc' = "graphql_sent"
    /\ fout' = [after |-> JsonString(GraphqlAfter(fin.cursor)), pageInfo |-> NoPageInfo, next |-> NoToken]
    /\ UNCHANGED <<env, line, cur, reqs, lines, out, resp, ex, upstream, fin, INCLUDE_RATE>>

\* The upstream's page information and the next_cursor the caller reads
\* from the envelope's meta; an error result carries none.
GraphqlPageReply ==
    /\ pc = "graphql_sent"
    /\ \/ \E pageInfo \in PageInfos :
            /\ pc' = "graphql_done"
            /\ fout' = [fout EXCEPT !.pageInfo = pageInfo,
                                    !.next = JsonString(GraphqlNextCursor(pageInfo))]
       \/ /\ pc' = "graphql_failed"
          /\ fout' = fout
    /\ UNCHANGED <<env, line, cur, reqs, lines, out, resp, ex, upstream, fin, INCLUDE_RATE>>

\* The caller's next call, with the cursor the Meta gave it.
GraphqlFollowUp ==
    /\ pc = "graphql_done"
    /\ fin.first
    /\ fout.next.some
    /\ pc' = "graphql_call"
    /\ fin' = [fin EXCEPT !.cursor = fout.next, !.first = FALSE]
    /\ fout' = NoPage
    /\ UNCHANGED <<env, line, cur, reqs, lines, out, resp, ex, upstream, INCLUDE_RATE>>

NextPage ==
    \/ PageCall
    \/ PageReply
    \/ PageFollowUp
    \/ GraphqlPageCall
    \/ GraphqlPageReply
    \/ GraphqlFollowUp

SpecPage == InitPage /\ [][NextPage]_vars

(***************************************************************************)
(* The ping gate on its own: one tools/list or tools/call ping line, under *)
(* any setting of GITHUB_MCP_ENABLE_PING.                                  *)
(***************************************************************************)
\* Settings of the variable: unset; `1`, `true`, `TRUE`, ` yes `, `On\n`,
\* `\tYeS`; the empty string, `0`, `false`, `2`, `enabled`, `y`, `o n`,
\* `yes!`, two spaces, `tru`.
PingSettings ==
    {PingUnset,
     PingSet(<<49>>),
     PingSet(<<116, 114, 117, 101>>),
     PingSet(<<84, 82, 85, 69>>),
     PingSet(<<32, 121, 101, 115, 32>>),
     PingSet(<<79, 110, 10>>),
     PingSet(<<9, 89, 101, 83>>),
     PingSet(<<>>),
     PingSet(<<48>>),
     PingSet(<<102, 97, 108, 115, 101>>),
     PingSet(<<50>>),
     PingSet(<<101, 110, 97, 98, 108, 101, 100>>),
     PingSet(<<121>>),
     PingSet(<<111, 32, 110>>),
     PingSet(<<121, 101, 115, 33>>),
     PingSet(<<32, 32>>),
     PingSet(<<116, 114, 117>>)}

PingLines ==
    {[BlankLine("req") EXCEPT !.id = i, !.method = "tools/list"] : i \in IdMembers}
    \cup {[BlankLine("req") EXCEPT !.id = i, !.method = "tools/call", !.params = "ok",
                                  !.name = "ping", !.args = a] :
            i \in IdMembers,
            a \in {DefaultArgs,
                   [DefaultArgs EXCEPT !.message = [some |-> TRUE, text |-> "ok"]],
                   [DefaultArgs EXCEPT !.decodes = FALSE],
                   [DefaultArgs EXCEPT !.include_rate = TRUE,
                                       !.message = [some |-> TRUE, text |-> "ok"]]}}

InitPing ==
    /\ env \in [token : BOOLEAN, ping : PingSettings]
    /\ line = NoLine
    /\ cur = NoCur
    /\ reqs = <<>>
    /\ lines = 0
    /\ out = <<>>
    /\ resp = NoResp
    /\ ex = ExIdle
    /\ upstream = FALSE
    /\ pc = "ping_line"
    /\ fin \in PingLines
    /\ fout = NoArg
    /\ INCLUDE_RATE = FALSE

\* The loop's body for the line: no answer for a notification, else the
\* response of dispatch.
PingLine ==
    /\ pc = "ping_line"
    /\ LET d == run_line(fin)
       IN  /\ pc' = IF d.act = "skip" THEN "ping_skipped" ELSE "ping_answered"
           /\ resp' = d.resp
    /\ UNCHANGED <<env, line, cur, reqs, lines, out, ex, upstream, fin, fout, INCLUDE_RATE>>

NextPing ==
    \/ PingLine

SpecPing == InitPing /\ [][NextPing]_vars

(***************************************************************************)
(* The catalogue and the dispatcher on one tool name: tools/list, then     *)
(* tools/call of that name with arguments that decode, under any           *)
(* environment.                                                            *)
(***************************************************************************)
CatalogueNames == ToolNames \cup tool_descriptors \cup {UnknownTool, ""}

CallLine(name) ==
    [BlankLine("req") EXCEPT !.id = "n1", !.method = "tools/call", !.params = "ok", !.name = name]

NoListing == [tools |-> {}, call |-> Skip]

InitCatalogue ==
    /\ env \in Envs
    /\ pc = "catalogue_start"
    /\ line = NoLine
    /\ cur = NoCur
    /\ reqs = <<>>
    /\ lines = 0
    /\ out = <<>>
    /\ resp = NoResp
    /\ ex = ExIdle
    /\ upstream = FALSE
    /\ fin \in CatalogueNames
    /\ fout = NoListing
    /\ INCLUDE_RATE = FALSE

\* tools/list is answered.
ListTools ==
    /\ pc = "catalogue_start"
    /\ pc' = "catalogue_listed"
    /\ resp' = handle_tools_list("n1").resp
    /\ fout' = [fout EXCEPT !.tools = ListedTools]
    /\ UNCHANGED <<env, line, cur, reqs, lines, out, ex, upstream, fin, INCLUDE_RATE>>

\* tools/call of the name: handle_tools_call up to its answer or to the
\* handler's first upstream call.
CallTool ==
    /\ pc = "catalogue_listed"
    /\ pc' = "catalogue_called"
    /\ line' = CallLine(fin)
    /\ resp' = handle_tools_call("n1", CallLine(fin)).resp
    /\ fout' = [fout EXCEPT !.call = handle_tools_call("n1", CallLine(fin))]
    /\ UNCHANGED <<env, cur, reqs, lines, out, ex, upstream, fin, INCLUDE_RATE>>

NextCatalogue ==
    \/ ListTools
    \/ CallTool

SpecCatalogue == InitCatalogue /\ [][NextCatalogue]_vars

(***************************************************************************)
(* Properties of one executor call (SpecExec).                             *)
(***************************************************************************)

\* C1: a call whose every attempt was answered with HTTP 503 never makes a
\* 7th attempt, and when it returns it has made exactly 6 attempts and
\* returns the error upstream_error.
C1_RetryBound ==
    /\ ex.all503 => ex.sends <= 6
    /\ (ex.phase = "ret" /\ ex.all503) =>
           (ex.sends = 6 /\ ~ex.ret.ok /\ ex.ret.err.code = "upstream_error")

C1_Witness ==
    /\ ex.kind = "rest_get_json"
    /\ ex.phase = "ret"
    /\ ex.all503
    /\ ex.sends = 6

\* C10: in every executor, an attempt answered with a 2xx status, or with a
\* status that is neither 429 nor 5xx, is followed by no backoff wait and by
\* no further attempt, at whatever attempt number it arrives.
C10_TerminalStatus ==
    [][(/\ ex.phase = "send"
        /\ ex'.sends = ex.sends + 1
        /\ ex'.status # 0
        /\ ex'.status # 429
        /\ ~(ex'.status >= 500 /\ ex'.status <= 599))
       => (ex'.phase \notin {"sleep", "send"} /\ ex'.wait = 0)]_vars

C10_Witness ==
    /\ ex.phase = "ret"
    /\ ex.attempt = 2
    /\ ex.status = 404
    /\ ex.ret.err.code = "not_found"

(***************************************************************************)
(* Properties of the server loop (Spec).                                   *)
(***************************************************************************)

\* C2: when every line read so far is a request with an id member, the
\* response lines written are exactly the answers to those requests, in
\* order: the k-th response line carries the k-th request's id, and while a
\* request is being processed every earlier one has its response line.
C2_Ordered ==
    Len(reqs) = lines =>
        /\ pc \in {"await", "eof"} => out = reqs
        /\ pc = "processing" => out = SubSeq(reqs, 1, Len(reqs) - 1)

\* C3: a request without an id member produces no response line, no tool
\* call-site is entered for it and no upstream request is sent, whatever its
\* method is.
C3_NotificationSilence ==
    [][(line'.k = "req" /\ line'.id = "absent") =>
           /\ out' = out
           /\ ~resp'.written
           /\ ~upstream'
           /\ pc' # "processing"
           /\ cur'.stage = "none"
           /\ ex'.phase = "idle"]_vars

C3_Witness ==
    /\ line.k = "req"
    /\ line.id = "absent"
    /\ line.method = "tools/call"
    /\ line.name = "list_issues"
    /\ line.args.decodes
    /\ env.token
    /\ lines = 2
    /\ Len(out) = 1

\* C4: the loop is either awaiting a line or processing one request; a line
\* is read only while awaiting, so never while a request, its upstream
\* attempts or its backoff waits are in progress; and processing ends only by
\* writing that request's response line.
C4_Synchronous ==
    [][/\ lines' # lines => (pc = "await" /\ ex.phase = "idle" /\ lines' = lines + 1)
       /\ pc = "processing" => (line' = line /\ pc' \in {"processing", "await", "crashed"})
       /\ (pc = "processing" /\ pc' = "await") =>
              (out' = Append(out, WireId(ParseId(line.id))) /\ resp'.written)
       /\ pc' = "processing" => (pc = "processing" \/ lines' = lines + 1)
       /\ ex'.phase \in {"send", "sleep", "ret"} => pc' = "processing"]_vars

C4_Witness ==
    /\ pc = "await"
    /\ lines = 2
    /\ Len(out) = 2
    /\ upstream
    /\ cur.stage = "done"
    /\ resp.written

C6_ErrorCodes ==
    (resp.written /\ line.k = "req" /\ line.id # "absent") =>
        /\ line.method \notin {"initialize", "tools/list", "tools/call"} =>
               (resp.error.some /\ resp.error.code = -32601)
        /\ (line.method = "tools/call" /\ line.params # "ok") =>
               (resp.error.some /\ resp.error.code = -32602)
        /\ (line.method = "tools/call" /\ line.params = "ok" /\ line.name \notin ToolNames) =>
               (resp.error.some /\ resp.error.code = -32601)
        /\ (/\ line.method = "tools/call"
            /\ line.params = "ok"
            /\ line.name \in ToolNames
            /\ line.name = "ping" => is_ping_enabled
            /\ ~line.args.decodes) =>
               (resp.error.some /\ resp.error.code = -32602)

\* C7: an upstream request is sent, or a handler is in its HTTP part, only
\* for a tools/call request with an id whose params decode, whose tool is
\* known, whose arguments decode and pass the limit check, and with the
\* credential present.
C7_UpstreamOnlyForToolCalls ==
    (upstream \/ ex.phase # "idle" \/ cur.stage # "none") =>
        /\ line.k = "req"
        /\ line.id # "absent"
        /\ line.method = "tools/call"
        /\ line.params = "ok"
        /\ line.name \in ToolNames
        /\ line.args.decodes
        /\ line.name \in LimitTools =>
               (line.args.limit = -1 \/ (line.args.limit >= 1 /\ line.args.limit <= 100))
        /\ env.token

C7_Witness ==
    /\ upstream
    /\ line.name = "list_issues"
    /\ line.args.limit = 100
    /\ ex.phase = "sleep"
    /\ ex.sends = 2

\* C8: the response to a tool call one of whose upstream requests failed has
\* a result, no error member, isError true and an error in its structured
\* content; an error member only carries -32700, -32601, -32602 or -32603;
\* and an envelope has isError exactly when its structured content has an error.
C8_ToolFailureEnvelope ==
    resp.written =>
        /\ cur.failed =>
               /\ resp.result.some
               /\ ~resp.error.some
               /\ resp.result.isError
               /\ resp.result.err # NoError
        /\ resp.error.some => resp.error.code \in {-32700, -32601, -32602, -32603}
        /\ resp.result.what \in {"envelope", "pong"} =>
               (resp.result.isError <=> resp.result.err # NoError)

\* C9: every response written has exactly one of result and error.
C9_ResultXorError ==
    resp.written => (resp.result.some # resp.error.some)

C9_Witness ==
    /\ resp.written
    /\ resp.error.some
    /\ resp.error.code = -32603
    /\ ~resp.result.some
    /\ line.name = "pr_summary"

(***************************************************************************)
(* Further properties of one executor call (SpecExec).                     *)
(***************************************************************************)

\* C11: an attempt answered with a success status whose body does not decode
\* is followed by no backoff wait and no further attempt, and the call
\* returns server_error with retriable false on that same attempt, whatever
\* retry budget remains.
C11_DecodeFailureTerminal ==
    [][(/\ ex.phase = "send"
        /\ ex'.sends = ex.sends + 1
        /\ ex'.status >= 200 /\ ex'.status <= 299
        /\ ex'.body = "bad")
       => /\ ex'.phase \notin {"sleep", "send"}
          /\ ex'.attempt = ex.attempt
          /\ ex'.phase = "ret" =>
                 /\ ~ex'.ret.ok
                 /\ ex'.ret.data = "none"
                 /\ ex'.ret.err = [code |-> "server_error", retriable |-> FALSE]]_vars

C11_Witness ==
    /\ ex.kind = "rest_get_json"
    /\ ex.phase = "ret"
    /\ ex.body = "bad"
    /\ ex.status = 200
    /\ ex.attempt = 1
    /\ ex.ret.err.code = "server_error"

C13_SurfacedAfterBudget ==
    (/\ resp.written
     /\ cur.stage = "done"
     /\ cur.reqfail
     /\ resp.result.err # NoError
     /\ (cur.last = 0 \/ cur.last = 429 \/ (cur.last >= 500 /\ cur.last <= 599)))
    => cur.tries = 6

(***************************************************************************)
(* Properties of the status classification (SpecClassify).                 *)
(***************************************************************************)

\* C14: the classification is total over the status codes and follows the
\* table: 400 bad_request, 401 unauthorized, 403 forbidden, 404 not_found,
\* 409 conflict, all five not retriable; 429 rate_limited, retriable; every
\* 5xx upstream_error, retriable; every other status server_error, not
\* retriable; and the message of the error is the message passed in.
C14_ClassifyTable ==
    pc = "classified" =>
        LET s == fin.status
            row(code, retriable) ==
                fout.code = code /\ fout.retriable = retriable
        IN  /\ fout.message = fin.message
            /\ s = 400 => row("bad_request", FALSE)
            /\ s = 401 => row("unauthorized", FALSE)
            /\ s = 403 => row("forbidden", FALSE)
            /\ s = 404 => row("not_found", FALSE)
            /\ s = 409 => row("conflict", FALSE)
            /\ s = 429 => row("rate_limited", TRUE)
            /\ (s >= 500 /\ s <= 599) => row("upstream_error", TRUE)
            /\ (s \notin {400, 401, 403, 404, 409, 429} /\ ~(s >= 500 /\ s <= 599))
                   => row("server_error", FALSE)

\* A 5xx other than 500 has been classified, with its message.
C14_Witness ==
    /\ pc = "classified"
    /\ fin.status = 502
    /\ fin.message = "Not Found"
    /\ fout = [code |-> "upstream_error", message |-> "Not Found", retriable |-> TRUE]

(***************************************************************************)
(* Properties of one executor call (SpecExec), continued.                  *)
(***************************************************************************)

\* C15: the code and the retriable flag of the error a call returns are a
\* function of what its last attempt received only (no response, or the
\* status and whether a success body could be read), whatever the number of
\* attempts made; a call that ends on a transport failure returns
\* upstream_error, retriable.
C15_ErrorFromFinalStatus ==
    (ex.phase = "ret" /\ ~ex.ret.ok) =>
        LET s == ex.status
            is(code, retriable) ==
                ex.ret.err = [code |-> code, retriable |-> retriable]
        IN  /\ s = 0 => is("upstream_error", TRUE)
            /\ s = 400 => is("bad_request", FALSE)
            /\ s = 401 => is("unauthorized", FALSE)
            /\ s = 403 => is("forbidden", FALSE)
            /\ s = 404 => is("not_found", FALSE)
            /\ s = 409 => is("conflict", FALSE)
            /\ s = 429 => is("rate_limited", TRUE)
            /\ (s >= 500 /\ s <= 599) => is("upstream_error", TRUE)
            /\ (s >= 200 /\ s <= 299 /\ ex.body = "bad") => is("server_error", FALSE)
            /\ (s >= 200 /\ s <= 299 /\ ex.body # "bad") => is("upstream_error", TRUE)
            /\ (s # 0 /\ (s < 200 \/ s > 299) /\ ~(s >= 500 /\ s <= 599)
                  /\ s \notin {400, 401, 403, 404, 409, 429})
                   => is("server_error", FALSE)

\* A call has returned after its sixth attempt failed in transport.
C15_Witness ==
    /\ ex.phase = "ret"
    /\ ex.sends = 6
    /\ ex.status = 0
    /\ ex.ret.err = [code |-> "upstream_error", retriable |-> TRUE]

(***************************************************************************)
(* Properties of the backoff delay (SpecBackoff).                          *)
(***************************************************************************)

\* C16: without a Retry-After, with capped(a) = min(5000, 200 * 2^min(a, 5))
\* milliseconds, the delay of attempt a lies between capped(a)/2 and
\* capped(a); capped never decreases as a grows; no delay exceeds 5000 ms;
\* and the shift is by at most 5 bits, so it cannot overflow 64 bits.
C16_BackoffRange ==
    (pc = "backed_off" /\ fin.retry_after = -1) =>
        LET capped(a) == IF 200 * 2^(IF a < 5 THEN a ELSE 5) < 5000
                         THEN 200 * 2^(IF a < 5 THEN a ELSE 5) ELSE 5000
        IN  /\ fout.wait >= capped(fin.attempt) \div 2
            /\ fout.wait <= capped(fin.attempt)
            /\ fout.wait <= 5000
            /\ \A b \in 0..fin.attempt : capped(b) <= capped(fin.attempt)
            /\ fout.shift <= 5
            /\ fout.shift < 64

\* The longest delay of the capped range has been computed: attempt 5 with
\* the largest jitter waits 5000 ms.
C16_Witness ==
    /\ pc = "backed_off"
    /\ fin.retry_after = -1
    /\ fin.attempt = 5
    /\ fout.wait = 5000

\* C17: in every REST executor (JSON GET, GET with Accept, text GET, POST,
\* PUT, PATCH), the sleep before the retry of a 429 or 5xx response that
\* carried Retry-After: n lasts exactly n seconds.
C17_RetryAfterHonoured ==
    [][(/\ ex.phase = "send"
        /\ ex.kind \in RestKinds
        /\ ex'.phase = "sleep"
        /\ (ex'.status = 429 \/ (ex'.status >= 500 /\ ex'.status <= 599))
        /\ ex'.retry_after >= 0)
       => ex'.wait = ex'.retry_after * 1000]_vars

(***************************************************************************)
(* Properties of the envelope's meta (SpecWrap).                           *)
(***************************************************************************)

\* C19: the meta of the envelope is the tool's meta pruned: with has_more
\* false or missing, has_more and next_cursor are gone; without the rate
\* opt-in, rate is gone; a meta with nothing left is omitted, and only such
\* a meta is; so a meta of a single page without opt-in is omitted; what the
\* rule does not remove, and the error beside the meta, are as the tool
\* wrote them.
C19_PruneRule ==
    (pc = "wrapped" /\ fin.structured.object /\ fin.structured.meta.kind = "object") =>
        LET m == fin.structured.meta
            o == fout.meta
            inc == fin.include_rate
            empty(x) == /\ x.has_more = "absent" /\ x.next_cursor = "absent"
                        /\ x.rate = "absent" /\ x.other = "absent"
        IN  /\ m.has_more \in {"false", "absent"}
                   => (o.has_more = "absent" /\ o.next_cursor = "absent")
            /\ ~inc => o.rate = "absent"
            /\ empty(o) <=> o.kind = "absent"
            /\ o.kind \in {"absent", "object"}
            /\ (m.has_more \in {"false", "absent"} /\ ~inc /\ m.other = "absent")
                   => o.kind = "absent"
            /\ m.has_more = "true"
                   => (o.has_more = "true" /\ o.next_cursor = m.next_cursor)
            /\ inc => o.rate = m.rate
            /\ o.other = m.other
            /\ fout.err = fin.structured.error

\* A single page without opt-in has been wrapped and its meta omitted, the
\* tool's meta holding has_more: false, a null cursor and a rate.
C19_Witness ==
    /\ pc = "wrapped"
    /\ ~fin.include_rate
    /\ fin.structured.meta =
           [kind |-> "object", has_more |-> "false", next_cursor |-> "null", rate |-> "obj",
            other |-> "absent"]
    /\ fout.meta = AbsentMeta

(***************************************************************************)
(* Properties of the include-rate flag and of the pagination meta (Spec).  *)
(***************************************************************************)

\* C18: whenever the loop is back at read_line, after a tools/call has
\* returned by any path, the include-rate flag has the value it had before
\* the call (false since the start); while a call is in progress the flag
\* is that call's own _include_rate; and the envelope written for a call
\* that did not pass _include_rate: true holds no rate.
C18_IncludeRateScoped ==
    /\ pc \in {"await", "eof"} => INCLUDE_RATE = FALSE
    /\ pc = "processing" => (INCLUDE_RATE = line.args.include_rate /\ cur.guard = FALSE)
    /\ (resp.written /\ resp.result.some /\ resp.result.what \in {"envelope", "pong"}
           /\ ~line.args.include_rate)
          => resp.result.meta.rate = "absent"

\* A second call, one that opted in, has returned with the rate in its
\* output, and the flag is false again.
C18_Witness ==
    /\ pc = "await"
    /\ lines = 2
    /\ line.args.include_rate
    /\ resp.written
    /\ resp.result.meta.rate = "obj"
    /\ INCLUDE_RATE = FALSE

\* C20: in every tool result written, meta.has_more is true exactly when
\* meta.next_cursor is a string.
C20_CursorIffHasMore ==
    (resp.written /\ resp.result.some /\ resp.result.what = "envelope")
        => (resp.result.meta.has_more = "true" <=> resp.result.meta.next_cursor = "str")

\* C21: the Meta a handler puts in its output, before pruning, has a
\* next_cursor exactly when its has_more is true, whatever page information
\* the upstream's response held.
C21_MetaCursorIffHasMore ==
    cur.stage = "done" => (cur.meta.next_cursor <=> cur.meta.has_more)

\* C22: the envelope of a call that passed _include_rate: true holds a rate
\* object whenever the upstream's response carried rate information (the
\* rate-limit headers, or the rateLimit field of a GraphQL body), whether
\* the call succeeded or failed.
C22_RateWhenOptedIn ==
    [][(/\ pc = "processing"
        /\ ex.phase = "ret"
        /\ ex.carried
        /\ line.args.include_rate
        /\ resp'.written /\ resp'.result.some /\ resp'.result.what = "envelope")
       => resp'.result.meta.rate = "obj"]_vars

(***************************************************************************)
(* Properties of the cursor codec (SpecCursor).                            *)
(***************************************************************************)

\* C23: decoding the token encode_rest_cursor wrote for a cursor gives that
\* cursor back: the same page and per_page, up to the largest u32, an absent
\* path absent and a present path unchanged.
C23_CursorRoundTrip ==
    pc = "roundtrip" =>
        /\ fout.cursor.some
        /\ fout.cursor.page = fin.page
        /\ fout.cursor.per_page = fin.per_page
        /\ fout.cursor.path = fin.path

\* A cursor of page 4294967295 whose path holds a quote has made the round
\* trip.
C23_Witness ==
    /\ pc = "roundtrip"
    /\ fin.page = <<4, 2, 9, 4, 9, 6, 7, 2, 9, 5>>
    /\ fin.path = [some |-> TRUE, bytes |-> <<97, 34, 98>>]
    /\ fout.cursor.some
    /\ fout.cursor.path.bytes = <<97, 34, 98>>

(***************************************************************************)
(* Properties of one list call-site (SpecPage).                            *)
(***************************************************************************)
\* A first call whose cursor is not the base64 of a cursor and whose limit
\* is acceptable has reached its request or its rejection.
InvalidCursorCall ==
    /\ pc \in {"page_sent", "page_rejected"}
    /\ fin.first
    /\ fin.cursor.some
    /\ fin.cursor.token \in InvalidTokens
    /\ (fin.tool \in LimitCursorTools => enforce_limit_u32(fin.size).some)

C25_NextPathCarried ==
    /\ (pc = "page_done" /\ extract_next_path_from_link(fout.link).some) =>
           /\ fout.next.some
           /\ decode_rest_cursor(fout.next.token).path = SomePath(fout.link.path)
    /\ (pc = "page_sent" /\ ~fin.first /\ extract_next_path_from_link(fin.link).some) =>
           fout.req.path = fin.link.path

\* C26: the GraphQL list tools bypass the REST cursor codec in both
\* directions: the caller's cursor string reaches the upstream unchanged as
\* `after`, and the upstream's endCursor reaches the caller unchanged as
\* next_cursor; neither is decoded, re-encoded or altered.
C26_GraphqlCursorVerbatim ==
    /\ pc \in {"graphql_sent", "graphql_done", "graphql_failed"} => fout.after = fin.cursor
    /\ pc = "graphql_done" => fout.next = fout.pageInfo.endCursor

\* A follow-up call has sent, as `after`, an endCursor the REST codec can
\* decode and would write otherwise, and has got an endCursor holding a
\* quote and a backslash as its next_cursor.
C26_Witness ==
    /\ pc = "graphql_done"
    /\ ~fin.first
    /\ fin.cursor.token \in ForeignTokens
    /\ fout.after = fin.cursor
    /\ fout.next = SomeToken(<<97, 34, 98, 92>>)

(***************************************************************************)
(* Properties of the ping gate (SpecPing).                                 *)
(***************************************************************************)
\* The settings that are 1, true, yes or on once trimmed and lowercased.
TruthyPingSettings ==
    {PingSet(<<49>>),
     PingSet(<<116, 114, 117, 101>>),
     PingSet(<<84, 82, 85, 69>>),
     PingSet(<<32, 121, 101, 115, 32>>),
     PingSet(<<79, 110, 10>>),
     PingSet(<<9, 89, 101, 83>>)}

C28_MissingCredentialFatal ==
    ~config_from_env_ok =>
        /\ lines = 0
        /\ out = <<>>
        /\ ~resp.written

\* C29: no state survives across requests. The answer written for a line
\* without an upstream call is the one run_line gives from the line and the
\* environment alone, whatever lines came before: tools/list gives the same
\* catalogue after any sequence of requests, and tools/call needs no
\* initialize before it. A handler that goes upstream runs with the
\* include-rate flag of its own call, having found the flag as at startup,
\* and its envelope is built from this call's own flag and the Meta and
\* error of this call's upstream replies. Between requests the flag is as
\* at startup.
C29_NoStateAcrossRequests ==
    /\ (pc = "await" /\ lines > 0 /\ cur.stage = "none") =>
           (resp = run_line(line).resp /\ run_line(line).act # "call")
    /\ pc = "processing" =>
           /\ run_line(line).act = "call"
           /\ ~resp.written
           /\ INCLUDE_RATE = line.args.include_rate
           /\ cur.guard = FALSE
    /\ (pc = "await" /\ cur.stage = "done") =>
           resp = ToolResponse(ParseId(line.id), resp.result.err, cur.meta, line.args.include_rate)
    /\ pc \in {"await", "eof"} => INCLUDE_RATE = FALSE

\* tools/list has been answered with the catalogue as the second answered
\* request of the process.
C29_Witness ==
    /\ pc = "await"
    /\ lines = 2
    /\ Len(out) = 2
    /\ resp.written
    /\ line.method = "tools/list"
    /\ resp.result.what = "tools"

(***************************************************************************)
(* Termination of one executor call (SpecExecFair).                        *)
(***************************************************************************)
\* The call is over: the executor returned, or a panic ended it.
ExecOver == ex.phase \in {"ret", "panic"}

\* C30: in every executor and for every sequence of per-attempt outcomes
\* (transport failures, 429, 5xx, other statuses, successes), one call ends
\* after at most 6 attempts. Transport failures and retriable statuses draw
\* on one retry counter: it starts at 0, grows by exactly one at each retry
\* and at nothing else, is never reset, and each attempt is made with the
\* counter at the number of attempts made before it.
C30_CallTerminates ==
    /\ [](ex.sends <= 6 /\ ex.attempt <= 5 /\ (ExecOver => ex.sends = ex.attempt + 1))
    /\ [][/\ ex'.attempt \in {ex.attempt, ex.attempt + 1}
          /\ ex'.attempt = ex.attempt + 1 <=> (ex.phase = "sleep" /\ ex'.phase = "send")
          /\ ex'.sends = ex.sends + 1 <=> ex.phase = "send"
          /\ ex'.sends \in {ex.sends, ex.sends + 1}
          /\ ex.phase = "send" =>
                 /\ ex.sends = ex.attempt
                 /\ ex'.phase = "sleep" <=>
                        /\ ex.attempt < 5
                        /\ ex'.status \in {0, 429} \/ (ex'.status >= 500 /\ ex'.status <= 599)
                        /\ ex'.phase # "panic"]_vars
    /\ <>ExecOver

\* A GraphQL call has returned from its sixth attempt, a success, after five
\* retries that were not all for a 503.
C30_Witness ==
    /\ ex.kind = "graphql_post"
    /\ ex.phase = "ret"
    /\ ex.sends = 6
    /\ ex.attempt = 5
    /\ ~ex.all503
    /\ ex.ret.ok

(***************************************************************************)
(* Requests answered, whatever their id and whatever the upstream returns. *)
(***************************************************************************)

\* C31: every request whose id member is present (a string, a number or
\* null) is answered exactly once: the line that carries it is either
\* answered in the iteration that reads it, with its own id, or enters a
\* handler, and a handler that returns writes one response line with that
\* id; a request whose id member is absent writes nothing.
C31_PresentIdAnswered ==
    [][/\ (lines' = lines + 1 /\ line'.k = "req" /\ line'.id # "absent") =>
              \/ pc' = "processing" /\ out' = out
              \/ pc' = "await" /\ resp'.written /\ out' = Append(out, line'.id)
       /\ (pc = "processing" /\ pc' = "await") =>
              (resp'.written /\ out' = Append(out, line.id))
       /\ (lines' = lines + 1 /\ line'.k = "req" /\ line'.id = "absent") =>
              (out' = out /\ pc' = "await")]_vars

\* C32: a request that has entered a handler eventually has its response
\* line, with its id, whatever statuses, headers and bodies the upstream
\* answers with: the server neither ends nor stalls before it has written
\* that line.
C32_AnsweredWhateverUpstream ==
    (pc = "processing") ~> (pc = "await" /\ resp.written /\ resp.id = ParseId(line.id))

(***************************************************************************)
(* Properties of a list call-site's paging (SpecPage), continued.          *)
(***************************************************************************)

\* C33: pagination makes progress. When a list call returned a next_cursor
\* and the caller re-issues the same call with that cursor, the upstream
\* request of the second call is not the request of the first again: it is
\* for the page after the first call's page (its page number incremented
\* as a u32) with the same page size, or for the next path the first
\* reply's Link header named, which the cursor carries; a GraphQL list call sends the cursor as
\* its `after`.
C33_PaginationProgress ==
    /\ (pc \in {"page_sent", "page_done", "page_panic"} /\ ~fin.first) =>
           /\ fout.req.ok
           /\ \/ /\ SomeNum(fout.req.page) \in PageSucc(fin.prev.page)
                 /\ fout.req.per_page = fin.prev.per_page
                 /\ fout.req.path = FormatPath(fin.tool, fout.req.per_page, fout.req.page)
                 /\ fout.req.path # fin.prev.path
              \/ /\ extract_next_path_from_link(fin.link).some
                 /\ fout.req.path = fin.link.path
    /\ (pc \in {"graphql_sent", "graphql_done", "graphql_failed"} /\ ~fin.first) =>
           fout.after = fin.cursor

(***************************************************************************)
(* Properties of the catalogue and the dispatcher (SpecCatalogue).         *)
(***************************************************************************)

\* C34: the catalogue and the dispatcher agree. Under one environment,
\* tools/call of a name is answered with something other than -32601 (Tool
\* not found) if and only if tools/list returns a descriptor of that name.
C34_CatalogueMatchesDispatcher ==
    pc = "catalogue_called" =>
        (fin \in fout.tools <=>
            ~(fout.call.act = "respond" /\ fout.call.resp.error.some
                                        /\ fout.call.resp.error.code = -32601))

(***************************************************************************)
(* Properties of the server loop (Spec): the checks of tools/call.         *)
(***************************************************************************)

\* C35: tools/call reports the first check that fails, in this order: the
\* shape of params (-32602), the tool name (-32601), the tool's argument
\* decode and the limit range 1..=100 (-32602), the configuration (-32603).
\* So an unknown tool yields -32601 and invalid arguments yield -32602 with
\* or without a credential, and -32603 is returned only for a known tool
\* with valid arguments when the credential is missing.
C35_CheckOrder ==
    (resp.written /\ line.k = "req" /\ line.method = "tools/call") =>
        LET code == IF resp.error.some THEN resp.error.code ELSE 0
            shaped == line.params = "ok"
            known == line.name \in ToolNames /\ (line.name = "ping" => is_ping_enabled)
            valid == /\ line.args.decodes
                     /\ line.name \in LimitTools =>
                            (line.args.limit = -1 \/ line.args.limit \in 1..100)
        IN  /\ ~shaped => code = -32602
            /\ (shaped /\ ~known) => code = -32601
            /\ (shaped /\ known /\ ~valid) => code = -32602
            /\ (shaped /\ known /\ valid /\ line.name # "ping") =>
                   (code = -32603 <=> ~config_from_env_ok)
            /\ code = -32603 => (shaped /\ known /\ valid /\ ~config_from_env_ok)

(***************************************************************************)
(* Properties of a list call-site's paging (SpecPage): the numbers sent.   *)
(***************************************************************************)

\* C36: every upstream request a REST list handler formats carries a
\* per_page within 1..=100 and a page of at least 1, whatever limit, page,
\* per_page and cursor the caller passes.
C36_PageNumbersInRange ==
    (/\ pc \in {"page_sent", "page_done", "page_panic"}
     /\ fout.req.ok
     /\ fout.req.path = FormatPath(fin.tool, fout.req.per_page, fout.req.page)) =>
        /\ fout.req.per_page # <<0>>
        /\ Min100(fout.req.per_page) = fout.req.per_page
        /\ fout.req.page # <<0>>

\* C37: when the reply of a REST list call reports more pages, the call
\* ends with a next cursor whose page number is the requested page plus
\* one, for every 32-bit page number the request can carry, 4294967295
\* included: the increment neither wraps to 0 nor aborts the call.
C37_NextPageIsSuccessor ==
    (/\ pc \in {"page_done", "page_panic"}
     /\ has_next_page_from_link(fout.link)) =>
        /\ pc = "page_done"
        /\ fout.next =
               SomeToken(encode_rest_cursor([page |-> IncDigits(fout.req.page),
                                             per_page |-> fout.req.per_page,
                                             path |-> NextPath(fin.tool, fout.link)]))

\* C38: whatever cursor the caller passes, the upstream request of
\* list_pr_review_comments targets the pull-request comments resource of
\* the owner, repo and number of the call's arguments: its path is that
\* resource followed by a query.
C38_CursorCannotRedirect ==
    (/\ pc \in {"page_sent", "page_done", "page_panic"}
     /\ fin.tool = "list_pr_review_comments"
     /\ fin.first
     /\ fout.req.ok) =>
        LET resource == Resource(fin.tool)
        IN  /\ Len(fout.req.path) > Len(resource)
            /\ SubSeq(fout.req.path, 1, Len(resource)) = resource
            /\ fout.req.path[Len(resource) + 1] = 63

(***************************************************************************)
(* Properties of one executor call (SpecExec): GraphQL bodies.             *)
(***************************************************************************)

\* C39: a GraphQL call that ends on a 2xx response is reported as the
\* application error upstream_error only when the body's errors array is
\* populated; a body with data whose errors member is absent, null or an
\* empty array is returned as success, with its data and with the rateLimit
\* metadata when the body holds it.
C39_GraphqlErrorOnlyWhenPopulated ==
    (ex.kind = "graphql_post" /\ ex.phase = "ret" /\ is_success(ex.status)) =>
        /\ (~ex.ret.ok /\ ex.ret.err.code = "upstream_error") => ex.body = "errors"
        /\ ex.body \in {"ok", "errors_empty"} =>
               /\ ex.ret.ok
               /\ ex.ret.data = "full"
               /\ ex.ret.rate = ex.carried

====
